---------------------------- MODULE Spec2Model ----------------------------
(***************************************************************************)
(* Duel ladder bot (maingraph/english_bot): the event clock, the duel      *)
(* matchmaking queue and the duel round state machine of                    *)
(* src/duel_ladder_bot, as the coroutines of one asyncio event loop.        *)
(*                                                                         *)
(* A step of the model is what one coroutine does between two suspension   *)
(* points (an await that really yields: a message send or edit, a sleep).  *)
(* Updates are handled one at a time (the Application is built without     *)
(* concurrent_updates), so there is one handler frame; every fired job and *)
(* every created task is a frame of its own.                               *)
(***************************************************************************)
EXTENDS Integers, Sequences, FiniteSets, TLC

VARIABLES
    db_is_active,   \* events table: the ids of the rows with is_active = 1
    db_events,      \* events table: number of rows (ids 1..db_events)
    db_players,     \* event_players rows: <<event_id, user_id>>
    db_auto_off,    \* player_prefs rows with auto_queue = 0: <<event_id, user_id>>
    rr_log,         \* record_round_result calls made for the round a duel is
                    \* in: <<duel, round, user, k, points, ok>>, k the ordinal
    wl_log,         \* record_duel_win_loss calls: <<duel, k, winner, loser>>
    global_event,   \* state.global_event: <<>> (None) or <<GlobalEventState>>
    active_duels,   \* state.active_duels: the duel ids that are keys of the dict
    duels,          \* the DuelState objects ever created, by duel id
    user_to_duel,   \* state.user_to_duel: user -> duel id, 0 when absent
    duel_seq,       \* state._duel_seq (counted from 0)
    job_queue,      \* context.job_queue: the scheduled jobs that have not run
    handler,        \* the update being handled: a frame, pc "idle" when none
    tasks,          \* the frames of fired jobs and created tasks still running
    pure,           \* a function applied on its own: None, or its arguments
    solo_sessions,  \* solo.solo_sessions: user -> session id, 0 when absent
    solos,          \* the SoloSession objects ever created, by session id
    game,           \* tma_server.game: the ClassroomGame of the aiohttp server
    round_task,     \* where round_timer_loop is suspended: "sleep" or "pause"
    game_state,     \* tma-api._game_state: the room of the serverless function
    response,       \* the last HTTP response sent: None, or where it came from,
                    \* its route, its status and its "ok"
    scope           \* what a specification explores: the players who act, the
                    \* number of duels, the rounds of a duel, the events
                    \* started, the steps left, whether the history of a
                    \* finished duel is kept, whether the round of every
                    \* timer is

vars == <<db_is_active, db_events, db_players, db_auto_off, rr_log, wl_log,
          global_event, active_duels, duels, user_to_duel, duel_seq,
          job_queue, handler, tasks, pure, solo_sessions, solos,
          game, round_task, game_state, response, scope>>

\* the variables of the two web backends
web == <<game, round_task, game_state, response>>

\* the variables of the bot
bot == <<db_is_active, db_events, db_players, db_auto_off, rr_log, wl_log,
         global_event, active_duels, duels, user_to_duel, duel_seq,
         job_queue, handler, tasks, pure, solo_sessions, solos>>

--------------------------------------------------------------------------
(* Bounds of the model *)

\* the user ids
NumPlayers == 4
\* the events an admin starts
MaxEvents == 1

\* one duel in full: the players who act, the duels made, the rounds of a
\* duel (config.DEFAULT_ROUNDS_PER_DUEL is 6)
MainPlayers == 2
MainDuels == 1
MainRounds == 2

\* the queue and the duels around it, the rounds ended by their timer
QueuePlayers == 3
QueueDuels == 2
QueueRounds == 1

\* two players through one duel after the other, over histories of at most
\* RematchSteps steps
RematchPlayers == 2
RematchDuels == 3
RematchRounds == 2
RematchSteps == 24

\* the longest queue try_matchmake is applied to on its own
MatchQueueLen == 4

\* the duels under fair scheduling: the players, the duels made, the rounds
FairPlayers == 2
FairDuels == 1
FairRounds == 1

\* the event clock: the players who join, the duels made, the events started
ClockPlayers == 2
ClockDuels == 1
ClockRounds == 1
ClockEvents == 3

\* the classroom game: the users who send requests, the rounds a lobby is
\* opened for
ClassPlayers == 2
ClassRounds == 2

\* the answer endpoints: the requests served
ApiSteps == 6

\* solo mode: the players who act, the sessions started, the rounds of one,
\* over histories of at most SoloSteps steps
SoloPlayers == 1
SoloSessions == 2
SoloRounds == 2
SoloSteps == 16

\* the latencies score_points is applied to on its own: every LatencyStep ms
\* up to LatencyStep * LatencySteps, and each side of the two thresholds
LatencyStep == 100
LatencySteps == 70

Players == 1..NumPlayers

\* config.TASK_TYPES
TASK_TYPES == <<"SYNONYM", "ANTONYM", "TRANSLATE", "DEFINITION", "GAPFILL">>

\* the option indices of a question (build_question returns 2..4 options)
Options == {0, 1}

\* where the shuffle of build_question leaves the correct option
CorrectIdxChoices == {1}

\* the answers a player gives, <<choice, latency in ms>>: a wrong one and a
\* correct one
AnswerInputs == {<<0, 1500>>, <<1, 1500>>}

\* what the vocabulary can yield at one round start, the categories for
\* which build_question returns a question: none, or two that are not the
\* category of the first phase
AvailChoices == {{}, {"TRANSLATE", "GAPFILL"}}

None == <<>>
Some(x) == <<x>>

--------------------------------------------------------------------------
(* helpers.py *)

\* score_points, had its middle tier paid what its last tier pays
score_points_swapped(is_correct, latency_ms) ==
    IF ~is_correct THEN 0
    ELSE IF latency_ms <= 2000 THEN 2
    ELSE IF latency_ms <= 5000 THEN 1
    ELSE 1

\* score_points, had it paid a slow correct answer more than a fast one
score_points_rising(is_correct, latency_ms) ==
    IF ~is_correct THEN 0
    ELSE IF latency_ms <= 2000 THEN 1
    ELSE IF latency_ms <= 5000 THEN 2
    ELSE 2

\* score_points
score_points(is_correct, latency_ms) ==
    IF ~is_correct THEN 0
    ELSE IF latency_ms <= 2000 THEN 2
    ELSE IF latency_ms <= 5000 THEN 2
    ELSE 1

\* current_task_type(), had it not looked at the index
current_task_type_first(ge) == TASK_TYPES[1]

\* current_task_type() on the event state ge
current_task_type(ge) ==
    IF ge = None THEN TASK_TYPES[1]
    ELSE TASK_TYPES[(ge[1].task_idx % Len(TASK_TYPES)) + 1]

--------------------------------------------------------------------------
(* db.py *)

\* get_active_event: the id of the active row with the largest id, 0 for None
db_active ==
    IF db_is_active = {} THEN 0
    ELSE CHOOSE e \in db_is_active : \A x \in db_is_active : x <= e

\* deactivate_events, had it left the rows as they are
deactivate_events_not(rows) == rows

\* deactivate_events on the active rows
deactivate_events(rows) == {}

\* create_event on the active rows: the new row eid is active
create_event(rows, eid) == rows \cup {eid}

get_player_stats(event_id, uid) == <<event_id, uid>> \in db_players

get_auto_queue(event_id, uid) == IF <<event_id, uid>> \in db_auto_off THEN 0 ELSE 1

\* the k-th call of a key is logged with ordinal k
RoundCalls(rr, d, r, uid) == {e \in rr : e[1] = d /\ e[2] = r /\ e[3] = uid}

record_round_result(rr, d, r, uid, pts, ok) ==
    rr \cup {<<d, r, uid, Cardinality(RoundCalls(rr, d, r, uid)) + 1, pts, ok>>}

WinLossCalls(wl, d) == {e \in wl : e[1] = d}

record_duel_win_loss(wl, d, winner, loser) ==
    wl \cup {<<d, Cardinality(WinLossCalls(wl, d)) + 1, winner, loser>>}

--------------------------------------------------------------------------
(* state.py *)

GlobalEventState(event_id) ==
    [event_id |-> event_id, task_idx |-> 0, queue |-> <<>>,
     phase_job |-> FALSE, end_job |-> FALSE]

\* the fields of a DuelState, and what is remembered of its history:
\*   njobs          the timers scheduled for it so far
\*   regular        finish_duel has been called for it with force_draw false
\*   noq            a round start of it has found no question
\*   timeout_empty  since its last question, a timer has fired with no answer
\*                  recorded: the round and the scores at that moment
\*   offered        the players finish_duel has called maybe_enqueue_and_match for
\*   at_stop        it was in state.active_duels when stop_event ran
\*   late           the timers (their ordinals) that were scheduled for a round
\*                  when the duel had left that round (kept when scope.timers)
DuelState(event_id, p1, p2, task_type) ==
    [event_id |-> event_id, p1_id |-> p1, p2_id |-> p2, task_type |-> task_type,
     rounds_total |-> scope.rounds,
     round_idx |-> 0, p1_score |-> 0, p2_score |-> 0,
     active_question |-> None, answers |-> {}, msg_id_by_user |-> FALSE,
     timer_job |-> 0, is_done |-> FALSE,
     njobs |-> 0, regular |-> FALSE, noq |-> FALSE, timeout_empty |-> None,
     offered |-> {}, at_stop |-> FALSE, late |-> {}]

\* a coroutine at pc; of a duel's, d is the duel and, while run_next_round
\* awaits its sends, r the round of the question (kept when scope.timers)
Frame(pc, d, u, r, c, id) == [pc |-> pc, d |-> d, u |-> u, r |-> r, c |-> c, id |-> id]

Idle == Frame("idle", 0, 0, 0, 0, <<0, 0>>)

\* a scheduled job: fn(a, b), with the ordinal n of the job among its duel's
Job(fn, a, b, n) == [fn |-> fn, a |-> a, b |-> b, n |-> n]


--------------------------------------------------------------------------
(* The in-memory state and the ledger as one value w, which the functions   *)
(* below transform: ge global_event, jq job_queue, ad active_duels,         *)
(* du duels, ud user_to_duel, seq _duel_seq, ts tasks, rr rr_log, wl wl_log *)

World ==
    [ge |-> global_event, jq |-> job_queue, ad |-> active_duels, du |-> duels,
     ud |-> user_to_duel, seq |-> duel_seq, ts |-> tasks, rr |-> rr_log,
     wl |-> wl_log]

InSeq(x, s) == \E i \in 1..Len(s) : s[i] = x

RemoveAt(s, i) == SubSeq(s, 1, i - 1) \o SubSeq(s, i + 1, Len(s))

Without(s, x) == SelectSeq(s, LAMBDA y : y # x)

--------------------------------------------------------------------------
(* duel.py: matchmaking *)

\* the scan of try_matchmake: the index in rest of its first entry that is
\* not p1, 0 when there is none
\* the scan, had it taken the next entry whoever it is
FirstEntry(rest, p1) == IF Len(rest) = 0 THEN 0 ELSE 1

FirstOther(rest, p1) ==
    LET I == {i \in 1..Len(rest) : rest[i] # p1}
    IN  IF I = {} THEN 0 ELSE CHOOSE i \in I : \A j \in I : i <= j

\* the body of the loop of try_matchmake once p1 and p2 are taken, had it
\* left out the binding of p2
NewDuelNoBind(w, event_id, p1, p2) ==
    LET duel_id == w.seq + 1
    IN  [w EXCEPT !.seq = duel_id,
                  !.du = Append(@, DuelState(event_id, p1, p2, current_task_type(w.ge))),
                  !.ad = @ \cup {duel_id},
                  !.ud = [@ EXCEPT ![p1] = duel_id],
                  !.ts = @ \cup {Frame("flow_start", duel_id, 0, 0, 0, <<duel_id, 0>>)}]

\* the body of the loop of try_matchmake once p1 and p2 are taken: the new
\* duel, its bindings and its task
NewDuel(w, event_id, p1, p2) ==
    LET duel_id == w.seq + 1
    IN  [w EXCEPT !.seq = duel_id,
                  !.du = Append(@, DuelState(event_id, p1, p2, current_task_type(w.ge))),
                  !.ad = @ \cup {duel_id},
                  !.ud = [@ EXCEPT ![p1] = duel_id, ![p2] = duel_id],
                  !.ts = @ \cup {Frame("flow_start", duel_id, 0, 0, 0, <<duel_id, 0>>)}]

\* the loop of try_matchmake, had it been an if: one pass
MatchOnce(w, event_id) ==
    LET q == w.ge[1].queue
    IN  IF Len(q) < 2 THEN w
        ELSE LET p1 == Head(q)
                 rest == Tail(q)
                 i == FirstOther(rest, p1)
             IN  IF i = 0 THEN w
                 ELSE LET p2 == rest[i]
                          w1 == [w EXCEPT !.ge[1].queue = RemoveAt(rest, i)]
                      IN  IF w1.ud[p1] # 0 \/ w1.ud[p2] # 0
                          THEN w1
                          ELSE NewDuel(w1, event_id, p1, p2)

\* the loop of try_matchmake
RECURSIVE MatchLoop(_, _)
MatchLoop(w, event_id) ==
    LET q == w.ge[1].queue
    IN  IF Len(q) < 2 THEN w
        ELSE LET p1 == Head(q)
                 rest == Tail(q)
                 i == FirstOther(rest, p1)
             IN  IF i = 0 THEN w
                 ELSE LET p2 == rest[i]
                          w1 == [w EXCEPT !.ge[1].queue = RemoveAt(rest, i)]
                      IN  IF w1.ud[p1] # 0 \/ w1.ud[p2] # 0
                          THEN MatchLoop(w1, event_id)
                          ELSE MatchLoop(NewDuel(w1, event_id, p1, p2), event_id)

try_matchmake(w) ==
    IF db_active = 0 THEN w
    ELSE IF w.ge = None THEN w
    ELSE MatchLoop(w, db_active)

\* the checks of maybe_enqueue_and_match, had it not looked at user_to_duel
EligibleWhileBound(w, uid) ==
    /\ db_active # 0
    /\ get_player_stats(db_active, uid)
    /\ get_auto_queue(db_active, uid) = 1

\* the checks of maybe_enqueue_and_match, had it not looked at auto_queue
EligibleWhilePaused(w, uid) ==
    /\ db_active # 0
    /\ get_player_stats(db_active, uid)
    /\ w.ud[uid] = 0

\* the checks of maybe_enqueue_and_match before it touches the queue
Eligible(w, uid) ==
    /\ db_active # 0
    /\ get_player_stats(db_active, uid)
    /\ get_auto_queue(db_active, uid) = 1
    /\ w.ud[uid] = 0

\* maybe_enqueue_and_match up to its first suspension: susp when it has
\* appended uid and awaits the "Searching" message, with try_matchmake still
\* to run; otherwise it has returned
maybe_enqueue_and_match(w, uid) ==
    IF ~Eligible(w, uid) THEN [w |-> w, susp |-> FALSE]
    ELSE LET w1 == IF w.ge = None
                   THEN [w EXCEPT !.ge = Some(GlobalEventState(db_active))]
                   ELSE w
         IN  IF ~InSeq(uid, w1.ge[1].queue)
             THEN [w |-> [w1 EXCEPT !.ge[1].queue = Append(@, uid)], susp |-> TRUE]
             ELSE [w |-> try_matchmake(w1), susp |-> FALSE]

--------------------------------------------------------------------------
(* duel.py: the round state machine. Each function is the part of the      *)
(* coroutine up to its next suspension and yields the new w and the place  *)
(* pc where the coroutine is suspended ("end" when it has returned).       *)

\* the winner, had finish_duel not compared the scores
WinnerUncompared(duel, force_draw) ==
    IF force_draw THEN 0 ELSE duel.p1_id

Winner(duel, force_draw) ==
    IF force_draw THEN 0
    ELSE IF duel.p1_score > duel.p2_score THEN duel.p1_id
    ELSE IF duel.p2_score > duel.p1_score THEN duel.p2_id
    ELSE 0

Loser(duel, force_draw) ==
    IF force_draw THEN 0
    ELSE IF duel.p1_score > duel.p2_score THEN duel.p2_id
    ELSE IF duel.p2_score > duel.p1_score THEN duel.p1_id
    ELSE 0

\* finish_duel up to its first send: is_done, the winner, the ledger
finish_duel(w, d, force_draw) ==
    LET duel == w.du[d]
        winner == Winner(duel, force_draw)
        loser == Loser(duel, force_draw)
    IN  [w EXCEPT !.du[d].is_done = TRUE,
                  !.du[d].regular = @ \/ ~force_draw,
                  !.wl = IF winner # 0 /\ loser # 0
                         THEN record_duel_win_loss(@, d, winner, loser)
                         ELSE @]

\* finish_duel after its sends: the three pops
\* the pops of finish_duel, had it left the second player bound
UnbindFirst(w, d) ==
    LET duel == w.du[d]
    IN  [w EXCEPT !.ad = @ \ {d},
                  !.ud = [@ EXCEPT ![duel.p1_id] = 0]]

Unbind(w, d) ==
    LET duel == w.du[d]
    IN  [w EXCEPT !.ad = @ \ {d},
                  !.ud = [@ EXCEPT ![duel.p1_id] = 0, ![duel.p2_id] = 0]]

\* finish_duel after its rest: the two maybe_enqueue_and_match calls, from
\* the first (from = 1) or from the second (from = 2)
Requeue(w, d, from) ==
    LET duel == w.du[d]
        e1 == IF from = 1
              THEN maybe_enqueue_and_match(
                       [w EXCEPT !.du[d].offered = @ \cup {duel.p1_id}], duel.p1_id)
              ELSE [w |-> w, susp |-> FALSE]
        e2 == maybe_enqueue_and_match(
                  [e1.w EXCEPT !.du[d].offered = @ \cup {duel.p2_id}], duel.p2_id)
    IN  IF e1.susp THEN [w |-> e1.w, pc |-> "enq1_send"]
        ELSE IF e2.susp THEN [w |-> e2.w, pc |-> "enq2_send"]
        ELSE [w |-> e2.w, pc |-> "end"]

\* the question of a round start: the duel's category if it yields one, else
\* the first of TASK_TYPES that does, "" if none does
PickCategory(task_type, avail) ==
    IF task_type \in avail THEN task_type
    ELSE LET I == {i \in 1..Len(TASK_TYPES) : TASK_TYPES[i] \in avail}
         IN  IF I = {} THEN ""
             ELSE TASK_TYPES[CHOOSE i \in I : \A j \in I : i <= j]

run_next_round(w, d, avail, correct_idx) ==
    LET duel == w.du[d]
        t == PickCategory(duel.task_type, avail)
    IN  IF duel.is_done THEN [w |-> w, pc |-> "end"]
        ELSE IF duel.round_idx >= duel.rounds_total
        THEN [w |-> finish_duel(w, d, FALSE), pc |-> "finish_send"]
        ELSE IF t = "" THEN [w |-> [w EXCEPT !.du[d].noq = TRUE], pc |-> "noq_send"]
        ELSE [w |-> [w EXCEPT !.du[d].task_type = t,
                              !.du[d].active_question =
                                  Some([task_type |-> t, correct_idx |-> correct_idx,
                                        avail |-> avail]),
                              !.du[d].answers = {},
                              !.du[d].msg_id_by_user = FALSE,
                              !.du[d].timeout_empty = None,
                              !.rr = {e \in @ : e[1] # d}],
              pc |-> "round_send"]

\* run_next_round after the question is sent: the message ids and the timer
\* of the round r of the question
ScheduleTimer(w, d, r) ==
    LET duel == w.du[d]
        n == duel.njobs + 1
    IN  [w EXCEPT !.du[d].msg_id_by_user = TRUE,
                  !.du[d].njobs = n,
                  !.du[d].timer_job = n,
                  !.du[d].late = IF scope.timers /\ duel.round_idx # r
                                 THEN @ \cup {n} ELSE @,
                  !.jq = @ \cup {Job("end_round_job", d, duel.round_idx, n)}]

Answered(duel, uid) == \E a \in duel.answers : a.uid = uid

AnswerOf(duel, uid) == CHOOSE a \in duel.answers : a.uid = uid

\* eval_user of reveal_and_advance
eval_user(duel, uid) ==
    IF ~Answered(duel, uid) THEN [pts |-> 0, ok |-> FALSE]
    ELSE LET ans == AnswerOf(duel, uid)
             ok == ans.choice = duel.active_question[1].correct_idx
         IN  [pts |-> score_points(ok, ans.latency_ms), ok |-> ok]

\* reveal_and_advance after its edits: the round is advanced
RevealAdvance(w, d) ==
    [w EXCEPT !.du[d].round_idx = @ + 1,
              !.du[d].active_question = None,
              !.du[d].msg_id_by_user = FALSE,
              !.du[d].timer_job = 0]

\* reveal_and_advance up to its first suspension: the ledger and the scores;
\* it suspends on the edits when there is a message to edit, else on the sleep
reveal_and_advance(w, d, timed_out) ==
    LET duel == w.du[d]
        e1 == eval_user(duel, duel.p1_id)
        e2 == eval_user(duel, duel.p2_id)
        rr1 == record_round_result(w.rr, d, duel.round_idx, duel.p1_id, e1.pts, e1.ok)
        rr2 == record_round_result(rr1, d, duel.round_idx, duel.p2_id, e2.pts, e2.ok)
        w1 == [w EXCEPT !.rr = rr2,
                        !.du[d].p1_score = @ + e1.pts,
                        !.du[d].p2_score = @ + e2.pts,
                        !.du[d].timeout_empty =
                            IF @ = None /\ timed_out /\ duel.answers = {}
                            THEN Some([round_idx |-> duel.round_idx,
                                       p1_score |-> duel.p1_score,
                                       p2_score |-> duel.p2_score])
                            ELSE @]
    IN  IF duel.active_question = None
        THEN [w |-> finish_duel(w, d, TRUE), pc |-> "finish_send"]
        ELSE IF duel.msg_id_by_user THEN [w |-> w1, pc |-> "reveal_edit"]
        ELSE [w |-> RevealAdvance(w1, d), pc |-> "reveal_sleep"]

\* the guard of end_round_job
TimerCurrent(w, d, round_idx) ==
    d \in w.ad /\ ~w.du[d].is_done /\ w.du[d].round_idx = round_idx

\* the guards of on_callback, had it not looked at duel.answers
AcceptsAnswerTwice(w, uid, d, round_idx) ==
    /\ d \in w.ad
    /\ ~w.du[d].is_done
    /\ uid \in {w.du[d].p1_id, w.du[d].p2_id}
    /\ w.du[d].round_idx = round_idx

\* the guards of on_callback
AcceptsAnswer(w, uid, d, round_idx) ==
    /\ d \in w.ad
    /\ ~w.du[d].is_done
    /\ uid \in {w.du[d].p1_id, w.du[d].p2_id}
    /\ w.du[d].round_idx = round_idx
    /\ ~Answered(w.du[d], uid)

\* on_callback from its guards to its first suspension
on_callback(w, uid, d, round_idx, choice, latency_ms) ==
    IF ~AcceptsAnswer(w, uid, d, round_idx) THEN [w |-> w, pc |-> "end"]
    ELSE LET ans == [uid |-> uid, choice |-> choice, latency_ms |-> latency_ms]
             w1 == [w EXCEPT !.du[d].answers = @ \cup {ans}]
             duel == w1.du[d]
             w2 == [w1 EXCEPT !.jq = {j \in @ : ~(j.fn = "end_round_job" /\ j.a = d
                                                    /\ j.n = duel.timer_job)}]
         IN  IF Answered(duel, duel.p1_id) /\ Answered(duel, duel.p2_id)
             THEN reveal_and_advance(w2, d, FALSE)
             ELSE [w |-> w1, pc |-> "end"]

--------------------------------------------------------------------------
(* handlers/admin.py: the event clock *)

\* stop_event, had it left the two jobs of the event scheduled
stop_event_keeps_jobs(w) ==
    IF w.ge = None THEN w ELSE [w EXCEPT !.ge = None]

\* stop_event: it has no suspension
stop_event(w) ==
    IF w.ge = None THEN w
    ELSE LET ev == w.ge[1]
             gone == {j \in w.jq :
                        \/ ev.phase_job /\ j.fn = "rotate_phase_job" /\ j.a = ev.event_id
                        \/ ev.end_job /\ j.fn = "end_event_job" /\ j.a = ev.event_id}
         IN  [w EXCEPT !.jq = @ \ gone, !.ge = None]

--------------------------------------------------------------------------
(* The coroutines *)

SendPcs == {"round_send", "noq_send", "finish_send", "enq1_send", "enq2_send",
            "join_reply"}

\* what frame f does when it is resumed at a place where nothing is chosen
ResumeStep(w, f) ==
    CASE f.pc = "flow_start" ->
            \* start_duel_flow, up to the intro messages and the countdown
            IF f.d \notin w.ad \/ w.du[f.d].is_done
            THEN [w |-> w, pc |-> "end"]
            ELSE [w |-> w, pc |-> "flow_intro"]
      [] f.pc = "reveal_edit" ->
            \* the edits of the reveal are over, failed or not
            [w |-> RevealAdvance(w, f.d), pc |-> "reveal_sleep"]
      [] f.pc = "finish_sleep" ->
            Requeue(w, f.d, 1)

\* what frame f does when the message it awaits has been delivered
DeliveredStep(w, f) ==
    CASE f.pc = "round_send" -> [w |-> ScheduleTimer(w, f.d, f.r), pc |-> "end"]
      [] f.pc = "noq_send" -> [w |-> finish_duel(w, f.d, TRUE), pc |-> "finish_send"]
      [] f.pc = "finish_send" -> [w |-> Unbind(w, f.d), pc |-> "finish_sleep"]
      [] f.pc = "enq1_send" -> Requeue(try_matchmake(w), f.d, 2)
      [] f.pc = "enq2_send" -> [w |-> try_matchmake(w), pc |-> "end"]
      [] f.pc = "join_reply" ->
            \* cmd_join and cmd_resume after their reply
            LET e == maybe_enqueue_and_match(w, f.u)
            IN  [w |-> e.w, pc |-> IF e.susp THEN "enq2_send" ELSE "end"]

\* a DuelState that is in no table and in no coroutine's frame is garbage:
\* the round calls logged for it are dropped and, of its fields, the players,
\* the scores and its history are kept when scope.history says so
Released(duel) ==
    IF scope.history
    THEN [DuelState(duel.event_id, duel.p1_id, duel.p2_id, "") EXCEPT
            !.p1_score = duel.p1_score, !.p2_score = duel.p2_score,
            !.is_done = duel.is_done, !.regular = duel.regular, !.noq = duel.noq,
            !.offered = duel.offered, !.at_stop = duel.at_stop]
    ELSE [DuelState(0, 0, 0, "") EXCEPT !.is_done = TRUE]

Referenced(d, ad, frames) == d \in ad \/ \E f \in frames : f.d = d

\* a step is taken: of the steps left, when they are counted (they are not
\* when scope.steps is negative)
Tick ==
    /\ scope.steps # 0
    /\ scope' = [scope EXCEPT !.steps = IF @ > 0 THEN @ - 1 ELSE @]

\* frame f goes on at r.pc in the state r.w; a frame that has returned is gone
Commit(f, r) ==
    LET rd == IF r.pc = "round_send" /\ scope.timers THEN r.w.du[f.d].round_idx
              ELSE 0
        h == IF f.id # <<0, 0>> THEN handler
             ELSE IF r.pc = "end" THEN Idle
             ELSE Frame(r.pc, f.d, 0, rd, 0, f.id)
        ts == IF f.id = <<0, 0>> THEN r.w.ts
              ELSE (r.w.ts \ {f}) \cup
                   (IF r.pc = "end" THEN {} ELSE {Frame(r.pc, f.d, 0, rd, 0, f.id)})
        kept == {d \in DOMAIN r.w.du : Referenced(d, r.w.ad, ts \cup {h})}
    IN  /\ r.w.seq <= scope.duels
        /\ global_event' = r.w.ge
        /\ job_queue' = r.w.jq
        /\ active_duels' = r.w.ad
        /\ duels' = [d \in DOMAIN r.w.du |->
                        IF d \in kept THEN r.w.du[d] ELSE Released(r.w.du[d])]
        /\ user_to_duel' = r.w.ud
        /\ duel_seq' = r.w.seq
        /\ rr_log' = {e \in r.w.rr : e[1] \in kept \/ e[1] < 0}
        /\ wl_log' = IF scope.history THEN r.w.wl ELSE {e \in r.w.wl : e[1] \in kept}
        /\ handler' = h
        /\ tasks' = ts
        /\ UNCHANGED <<db_is_active, db_events, db_players, db_auto_off>>

Frames == tasks \cup (IF handler.pc = "idle" THEN {} ELSE {handler})

\* a step of a coroutine
Run(f, r) == Commit(f, r) /\ Tick /\ UNCHANGED <<pure, solo_sessions, solos, web>>

\* a suspended coroutine is resumed: a sleep or an edit is over, a created
\* task starts
Resume ==
    \E f \in Frames :
        /\ f.pc \in {"flow_start", "reveal_edit", "finish_sleep"}
        /\ Run(f, ResumeStep(World, f))

\* a send_message or reply_text returns
SendDone ==
    \E f \in Frames :
        /\ f.pc \in SendPcs
        /\ Run(f, DeliveredStep(World, f))

\* a send_message or reply_text raises: nothing catches it in the coroutine
SendFails ==
    \E f \in Frames :
        /\ f.pc \in SendPcs \cup {"flow_intro"}
        /\ Run(f, [w |-> World, pc |-> "end"])

\* run_next_round is entered: after the countdown of start_duel_flow, after
\* the sleep of reveal_and_advance
RoundStart ==
    \E f \in Frames, avail \in AvailChoices, correct_idx \in CorrectIdxChoices :
        /\ f.pc \in {"flow_intro", "reveal_sleep"}
        /\ Run(f, run_next_round(World, f.d, avail, correct_idx))

\* end_round_job runs
TimerFires ==
    \E j \in job_queue :
        /\ j.fn = "end_round_job"
        /\ LET w == [World EXCEPT !.jq = @ \ {j}]
               f == Frame("job", j.a, 0, 0, 0, <<j.a, j.n>>)
           IN  IF TimerCurrent(w, j.a, j.b)
               THEN Run(f, reveal_and_advance(w, j.a, TRUE))
               ELSE Run(f, [w |-> w, pc |-> "end"])

--------------------------------------------------------------------------
(* The updates *)

\* the callback data "ans|d|r|c" of the buttons of kb_options
CallbackData == (1..scope.duels) \X (0..scope.rounds) \X Options

\* a button with data cb is there to press: run_next_round has built the
\* keyboard of round cb[2] of duel cb[1]. The keyboards of earlier rounds
\* carry a smaller round index than the duel has
ButtonSent(w, cb) ==
    /\ cb[1] \in 1..w.seq
    /\ \/ cb[2] < w.du[cb[1]].round_idx
       \/ cb[2] = w.du[cb[1]].round_idx /\ w.du[cb[1]].active_question # None

\* a callback query of user uid is handled: on_callback, which has read and
\* written nothing before safe_answer_cbq returns. A query that on_callback
\* ignores changes nothing and is no step
Callback ==
    \E uid \in scope.players, cb \in CallbackData,
       latency_ms \in {a[2] : a \in AnswerInputs} :
        /\ handler.pc = "idle"
        /\ <<cb[3], latency_ms>> \in AnswerInputs
        /\ ButtonSent(World, cb)
        /\ AcceptsAnswer(World, uid, cb[1], cb[2])
        /\ Run(Frame("cb", cb[1], 0, 0, 0, <<0, 0>>),
               on_callback(World, uid, cb[1], cb[2], cb[3], latency_ms))

\* cmd_join up to its reply
cmd_join ==
    \E uid \in scope.players :
        /\ handler.pc = "idle"
        /\ db_active # 0
        /\ Tick
        /\ db_players' = db_players \cup {<<db_active, uid>>}
        /\ db_auto_off' = db_auto_off \ {<<db_active, uid>>}
        /\ handler' = Frame("join_reply", 0, uid, 0, 0, <<0, 0>>)
        /\ UNCHANGED <<db_is_active, db_events, rr_log, wl_log, global_event,
                       active_duels, duels, user_to_duel, duel_seq, job_queue,
                       tasks, pure,
                   solo_sessions, solos, web>>

\* cmd_resume up to its reply
cmd_resume ==
    \E uid \in scope.players :
        /\ handler.pc = "idle"
        /\ db_active # 0
        /\ get_player_stats(db_active, uid)
        /\ Tick
        /\ db_auto_off' = db_auto_off \ {<<db_active, uid>>}
        /\ handler' = Frame("join_reply", 0, uid, 0, 0, <<0, 0>>)
        /\ UNCHANGED <<db_is_active, db_events, db_players, rr_log, wl_log, global_event,
                       active_duels, duels, user_to_duel, duel_seq, job_queue,
                       tasks, pure,
                   solo_sessions, solos, web>>

\* cmd_pause and cmd_leave: the same statements
PauseOrLeave(uid) ==
    /\ handler.pc = "idle"
    /\ db_active # 0
    /\ get_player_stats(db_active, uid)
    /\ Tick
    /\ db_auto_off' = db_auto_off \cup {<<db_active, uid>>}
    /\ global_event' = IF global_event # None /\ InSeq(uid, global_event[1].queue)
                       THEN Some([global_event[1] EXCEPT !.queue = Without(@, uid)])
                       ELSE global_event
    /\ UNCHANGED <<db_is_active, db_events, db_players, rr_log, wl_log, active_duels,
                   duels, user_to_duel, duel_seq, job_queue, handler, tasks, pure,
                   solo_sessions, solos, web>>

cmd_pause == \E uid \in scope.players : PauseOrLeave(uid)

cmd_leave == \E uid \in scope.players : PauseOrLeave(uid)

\* the duels, those that stop_event finds in state.active_duels remembered
AtStop ==
    [d \in DOMAIN duels |->
        IF scope.history /\ d \in active_duels
        THEN [duels[d] EXCEPT !.at_stop = TRUE]
        ELSE duels[d]]

\* cmd_event_start by an admin
cmd_event_start ==
    /\ handler.pc = "idle"
    /\ db_events < scope.events
    /\ Tick
    /\ LET eid == db_events + 1
           w == stop_event(World)
       IN  /\ db_events' = eid
           /\ db_is_active' = create_event(deactivate_events(db_is_active), eid)
           /\ global_event' = Some([GlobalEventState(eid) EXCEPT !.phase_job = TRUE,
                                                                  !.end_job = TRUE])
           /\ job_queue' = w.jq \cup {Job("rotate_phase_job", eid, 0, 0),
                                      Job("end_event_job", eid, 0, 0)}
           /\ duels' = AtStop
    /\ UNCHANGED <<db_players, db_auto_off, rr_log, wl_log, active_duels,
                   user_to_duel, duel_seq, handler, tasks, pure,
                   solo_sessions, solos, web>>

\* stop_event and the deactivation it does in the store
StopEvent ==
    LET w == stop_event(World)
    IN  /\ global_event' = w.ge
        /\ job_queue' = w.jq
        /\ db_is_active' = deactivate_events(db_is_active)
        /\ duels' = AtStop

\* cmd_event_stop by an admin
cmd_event_stop ==
    /\ handler.pc = "idle"
    /\ db_active # 0
    /\ Tick
    /\ StopEvent
    /\ UNCHANGED <<db_events, db_players, db_auto_off, rr_log, wl_log, active_duels,
                   user_to_duel, duel_seq, handler, tasks, pure,
                   solo_sessions, solos, web>>

\* rotate_phase_job runs: a repeating job, it stays scheduled
rotate_phase_job ==
    \E j \in job_queue :
        /\ j.fn = "rotate_phase_job"
        /\ Tick
        /\ global_event' = IF global_event = None THEN global_event
                           ELSE Some([global_event[1] EXCEPT
                                        !.task_idx = (@ + 1) % Len(TASK_TYPES)])
        /\ UNCHANGED <<db_is_active, db_events, db_players, db_auto_off, rr_log, wl_log,
                       active_duels, duels, user_to_duel, duel_seq, job_queue,
                       handler, tasks, pure,
                   solo_sessions, solos, web>>

\* end_event_job runs
end_event_job ==
    \E j \in job_queue :
        /\ j.fn = "end_event_job"
        /\ Tick
        /\ LET w == stop_event([World EXCEPT !.jq = @ \ {j}])
           IN  /\ global_event' = w.ge
               /\ job_queue' = w.jq
               /\ db_is_active' = deactivate_events(db_is_active)
               /\ duels' = AtStop
        /\ UNCHANGED <<db_events, db_players, db_auto_off, rr_log, wl_log, active_duels,
                       user_to_duel, duel_seq, handler, tasks, pure,
                   solo_sessions, solos, web>>

--------------------------------------------------------------------------
(* solo.py: solo mode. A coroutine of session s is a frame with r = s; the  *)
(* frame of a fired timer has id <<-s, n>>. The ledger calls of session s   *)
(* are logged under -s.                                                     *)

\* the fields of a SoloSession (event_id 0 for None), and what is remembered
\* of its history:
\*   njobs     the timers scheduled for it so far
\*   reveals   the times _reveal_solo has scored a round of it
\*   foreign   a timer or a callback carrying another session's id has
\*             revealed a round of it
\*   ended     it has reached _finish_solo, or stop_solo has popped it
\*   replaced  cmd_solo has replaced it: by which session, and its score, its
\*             reveals and its ledger calls at that moment
SoloSession(user_id, event_id, task_type) ==
    [user_id |-> user_id, event_id |-> event_id, task_type |-> task_type,
     rounds_total |-> scope.rounds, round_idx |-> 0, score |-> 0,
     active_question |-> None, msg_id |-> FALSE, timer_job |-> 0,
     njobs |-> 0, reveals |-> 0, foreign |-> FALSE, ended |-> FALSE,
     replaced |-> None]

\* the state solo mode works on: ss solo_sessions, so the sessions,
\* jq job_queue, rr rr_log
SoloWorld == [ss |-> solo_sessions, so |-> solos, jq |-> job_queue, rr |-> rr_log]

SoloCalls(rr, s) == {e \in rr : e[1] = -s}

\* stop_solo
stop_solo(sw, uid) ==
    LET s == sw.ss[uid]
    IN  IF s = 0 THEN sw
        ELSE [sw EXCEPT !.ss[uid] = 0,
                        !.so[s].ended = TRUE,
                        !.jq = {j \in @ : ~(j.fn = "_solo_timeout_job" /\ j.a = s
                                              /\ j.n = sw.so[s].timer_job)}]

\* _finish_solo up to its send: the pop of the user's entry
finish_solo(sw, s) ==
    [sw EXCEPT !.ss[sw.so[s].user_id] = 0, !.so[s].ended = TRUE]

\* _run_next_solo_round up to its first send
run_next_solo_round(sw, s, avail, correct_idx) ==
    LET sess == sw.so[s]
        t == PickCategory(sess.task_type, avail)
    IN  IF sess.round_idx >= sess.rounds_total
        THEN [w |-> finish_solo(sw, s), pc |-> "solo_finish_send"]
        ELSE IF t = "" THEN [w |-> sw, pc |-> "solo_noq_send"]
        ELSE [w |-> [sw EXCEPT !.so[s].task_type = t,
                               !.so[s].active_question =
                                   Some([task_type |-> t, correct_idx |-> correct_idx,
                                         avail |-> avail])],
              pc |-> "solo_round_send"]

\* _run_next_solo_round after the question is sent: the message id, the timer
SoloScheduleTimer(sw, s) ==
    LET n == sw.so[s].njobs + 1
    IN  [sw EXCEPT !.so[s].msg_id = TRUE,
                   !.so[s].njobs = n,
                   !.so[s].timer_job = n,
                   !.jq = @ \cup {Job("_solo_timeout_job", s, sw.so[s].round_idx, n)}]

\* _reveal_solo after its edit: the round is advanced, the next one started
SoloAdvance(sw, s, avail, correct_idx) ==
    run_next_solo_round([sw EXCEPT !.so[s].round_idx = @ + 1,
                                   !.so[s].active_question = None,
                                   !.so[s].msg_id = FALSE],
                        s, avail, correct_idx)

\* _reveal_solo up to its first suspension; choice_idx -1 is None
\* _reveal_solo, had it not looked at the event of the session
reveal_solo_recording(sw, s, choice_idx, latency_ms, avail, correct_idx) ==
    LET sess == sw.so[s]
        ok == choice_idx # -1 /\ choice_idx = sess.active_question[1].correct_idx
        pts == IF choice_idx = -1 THEN 0 ELSE score_points(ok, latency_ms)
        w1 == [sw EXCEPT !.so[s].score = @ + pts,
                         !.so[s].reveals = @ + 1,
                         !.rr = record_round_result(@, -s, sess.round_idx,
                                                    sess.user_id, pts, ok)]
    IN  IF sess.active_question = None
        THEN [w |-> finish_solo(sw, s), pc |-> "solo_finish_send"]
        ELSE IF sess.msg_id THEN [w |-> w1, pc |-> "solo_edit"]
        ELSE SoloAdvance(w1, s, avail, correct_idx)

reveal_solo(sw, s, choice_idx, latency_ms, avail, correct_idx) ==
    LET sess == sw.so[s]
        ok == choice_idx # -1 /\ choice_idx = sess.active_question[1].correct_idx
        pts == IF choice_idx = -1 THEN 0 ELSE score_points(ok, latency_ms)
        w1 == [sw EXCEPT !.so[s].score = @ + pts,
                         !.so[s].reveals = @ + 1,
                         !.rr = IF sess.event_id # 0
                                THEN record_round_result(@, -s, sess.round_idx,
                                                         sess.user_id, pts, ok)
                                ELSE @]
    IN  IF sess.active_question = None
        THEN [w |-> finish_solo(sw, s), pc |-> "solo_finish_send"]
        ELSE IF sess.msg_id THEN [w |-> w1, pc |-> "solo_edit"]
        ELSE SoloAdvance(w1, s, avail, correct_idx)

\* the guard of _solo_timeout_job and of handle_solo_callback: the user has a
\* session, and it is the one of the id and in the round of the data
SoloCurrent(sw, uid, session_id, round_idx) ==
    /\ sw.ss[uid] # 0
    /\ sw.ss[uid] = session_id
    /\ sw.so[sw.ss[uid]].round_idx = round_idx

\* a coroutine of solo mode goes on at r.pc in the state r.w
SoloCommit(f, r) ==
    LET g == Frame(r.pc, 0, f.u, f.r, 0, f.id)
    IN  /\ Tick
        /\ solo_sessions' = r.w.ss
        /\ solos' = r.w.so
        /\ job_queue' = r.w.jq
        /\ rr_log' = r.w.rr
        /\ handler' = IF f.id # <<0, 0>> THEN handler
                      ELSE IF r.pc = "end" THEN Idle ELSE g
        /\ tasks' = IF f.id = <<0, 0>> THEN tasks
                    ELSE (tasks \ {f}) \cup (IF r.pc = "end" THEN {} ELSE {g})
        /\ UNCHANGED <<db_is_active, db_events, db_players, db_auto_off, wl_log,
                       global_event, active_duels, duels, user_to_duel, duel_seq,
                       pure, web>>

\* cmd_solo up to its reply: the auto-queue is paused, the user's session is
\* stopped and a new one takes its place
cmd_solo ==
    \E uid \in scope.players :
        LET event_id == IF db_active # 0 /\ get_player_stats(db_active, uid)
                        THEN db_active ELSE 0
            old == solo_sessions[uid]
            s == Len(solos) + 1
            w1 == stop_solo(SoloWorld, uid)
            so1 == IF old = 0 THEN w1.so
                   ELSE [w1.so EXCEPT ![old].replaced =
                            Some([by |-> s, score |-> w1.so[old].score,
                                  reveals |-> w1.so[old].reveals,
                                  calls |-> Cardinality(SoloCalls(w1.rr, old))])]
        IN  /\ handler.pc = "idle"
            /\ Len(solos) < SoloSessions
            /\ Tick
            /\ db_auto_off' = IF event_id # 0 THEN db_auto_off \cup {<<event_id, uid>>}
                              ELSE db_auto_off
            /\ solos' = Append(so1, SoloSession(uid, event_id,
                                   IF db_active # 0 THEN current_task_type(global_event)
                                   ELSE TASK_TYPES[1]))
            /\ solo_sessions' = [w1.ss EXCEPT ![uid] = s]
            /\ job_queue' = w1.jq
            /\ handler' = Frame("solo_reply", 0, uid, s, 0, <<0, 0>>)
            /\ UNCHANGED <<db_is_active, db_events, db_players, rr_log, wl_log,
                           global_event, active_duels, duels, user_to_duel, duel_seq,
                           tasks, pure, web>>

\* cmd_solo_stop: its reply changes nothing
cmd_solo_stop ==
    \E uid \in scope.players :
        /\ handler.pc = "idle"
        /\ solo_sessions[uid] # 0
        /\ SoloCommit(Frame("solo_stop", 0, uid, 0, 0, <<0, 0>>),
                      [w |-> stop_solo(SoloWorld, uid), pc |-> "end"])

SoloSendPcs == {"solo_reply", "solo_round_send", "solo_noq_send", "solo_finish_send",
                "solo_fallback_send"}

\* a send_message or reply_text of solo mode returns
SoloSendDone ==
    \E f \in Frames, avail \in AvailChoices, correct_idx \in CorrectIdxChoices :
        /\ f.pc \in SoloSendPcs
        /\ SoloCommit(f,
             CASE f.pc = "solo_reply" ->
                      run_next_solo_round(SoloWorld, f.r, avail, correct_idx)
               [] f.pc = "solo_round_send" ->
                      [w |-> SoloScheduleTimer(SoloWorld, f.r), pc |-> "end"]
               [] f.pc = "solo_noq_send" ->
                      [w |-> finish_solo(SoloWorld, f.r), pc |-> "solo_finish_send"]
               [] f.pc = "solo_finish_send" -> [w |-> SoloWorld, pc |-> "end"]
               [] f.pc = "solo_fallback_send" ->
                      SoloAdvance(SoloWorld, f.r, avail, correct_idx))

\* a send_message or reply_text of solo mode raises
SoloSendFails ==
    \E f \in Frames :
        /\ f.pc \in SoloSendPcs
        /\ SoloCommit(f, [w |-> SoloWorld, pc |-> "end"])

\* the edit of _reveal_solo returns
SoloEditDone ==
    \E f \in Frames, avail \in AvailChoices, correct_idx \in CorrectIdxChoices :
        /\ f.pc = "solo_edit"
        /\ SoloCommit(f, SoloAdvance(SoloWorld, f.r, avail, correct_idx))

\* the edit of _reveal_solo raises: the result is sent as a new message
SoloEditFails ==
    \E f \in Frames :
        /\ f.pc = "solo_edit"
        /\ SoloCommit(f, [w |-> SoloWorld, pc |-> "solo_fallback_send"])

\* _solo_timeout_job runs
SoloTimerFires ==
    \E j \in job_queue, avail \in AvailChoices, correct_idx \in CorrectIdxChoices :
        /\ j.fn = "_solo_timeout_job"
        /\ LET w == [SoloWorld EXCEPT !.jq = @ \ {j}]
               uid == solos[j.a].user_id
               s == w.ss[uid]
               f == Frame("job", 0, uid, s, 0, <<-j.a, j.n>>)
           IN  IF SoloCurrent(w, uid, j.a, j.b)
               THEN SoloCommit(f, reveal_solo([w EXCEPT !.so[s].foreign = @ \/ s # j.a],
                                              s, -1, 0, avail, correct_idx))
               ELSE SoloCommit(f, [w |-> w, pc |-> "end"])

\* a button of a solo question is there to press: data "solo|s|r|c"
SoloButtonSent(sw, s, round_idx) ==
    /\ s \in 1..Len(sw.so)
    /\ \/ round_idx < sw.so[s].round_idx
       \/ round_idx = sw.so[s].round_idx /\ sw.so[s].active_question # None

\* a callback query of a solo button is handled: handle_solo_callback. A
\* query that it ignores changes nothing and is no step
SoloCallback ==
    \E uid \in scope.players, session_id \in 1..SoloSessions,
       round_idx \in 0..scope.rounds, a \in AnswerInputs,
       avail \in AvailChoices, correct_idx \in CorrectIdxChoices :
        /\ handler.pc = "idle"
        /\ SoloButtonSent(SoloWorld, session_id, round_idx)
        /\ solos[session_id].user_id = uid
        /\ SoloCurrent(SoloWorld, uid, session_id, round_idx)
        /\ LET s == solo_sessions[uid]
               w == [SoloWorld EXCEPT
                        !.jq = {j \in @ : ~(j.fn = "_solo_timeout_job" /\ j.a = s
                                              /\ j.n = solos[s].timer_job)},
                        !.so[s].timer_job = 0,
                        !.so[s].foreign = @ \/ s # session_id]
           IN  SoloCommit(Frame("solo_cb", 0, uid, s, 0, <<0, 0>>),
                          reveal_solo(w, s, a[1], a[2], avail, correct_idx))

--------------------------------------------------------------------------
(* tma_server.py: the classroom game. Time is not kept: the latency of an  *)
(* answer and whether the time of a round is up are chosen by the step.    *)

ClassUsers == 1..ClassPlayers

\* the first names of the users
Names == {"Ann", "Bob"}

\* what the vocabulary can yield at one round start: nothing, or the
\* category of the first round and one more
ClassAvailChoices == {{}, {"SYNONYM", "GAPFILL"}}

\* the latencies of the answers, in ms
ClassLatencies == {3000, 7000}

\* the body of an answer request: None when it is no JSON object with an
\* integer "choice", else the choice
Bodies == {None} \cup {Some(c) : c \in Options}

\* a dict with no key
EmptyDict == [k \in {} |-> None]

\* d[k] = v
Put(d, k, v) == [x \in DOMAIN d \cup {k} |-> IF x = k THEN v ELSE d[x]]

\* ClassroomGame.reset, the state of a new ClassroomGame; asked remembers
\* the rounds whose question next_round has set since
reset ==
    [is_open |-> FALSE, is_running |-> FALSE, is_finished |-> FALSE,
     players |-> EmptyDict, current_round |-> 0, total_rounds |-> 10,
     current_question |-> None, answers |-> EmptyDict, task_type |-> "SYNONYM",
     round_results |-> <<>>, asked |-> {}]

open_lobby(total_rounds) ==
    [reset EXCEPT !.is_open = TRUE, !.total_rounds = total_rounds]

\* join, had it written the record of a player who has one
join_again(g, user_id, name) ==
    IF ~g.is_open \/ g.is_running \/ g.is_finished THEN [g |-> g, ok |-> FALSE]
    ELSE [g |-> [g EXCEPT !.players = Put(@, user_id,
                     [name |-> name, score |-> 0, correct |-> 0, wrong |-> 0])],
          ok |-> TRUE]

\* join, had it let a player in while the game is running
join_late(g, user_id, name) ==
    IF (~g.is_open /\ ~g.is_running) \/ g.is_finished THEN [g |-> g, ok |-> FALSE]
    ELSE IF user_id \notin DOMAIN g.players
    THEN [g |-> [g EXCEPT !.players = Put(@, user_id,
                     [name |-> name, score |-> 0, correct |-> 0, wrong |-> 0])],
          ok |-> TRUE]
    ELSE [g |-> g, ok |-> TRUE]

join(g, user_id, name) ==
    IF ~g.is_open \/ g.is_running \/ g.is_finished THEN [g |-> g, ok |-> FALSE]
    ELSE IF user_id \notin DOMAIN g.players
    THEN [g |-> [g EXCEPT !.players = Put(@, user_id,
                     [name |-> name, score |-> 0, correct |-> 0, wrong |-> 0])],
          ok |-> TRUE]
    ELSE [g |-> g, ok |-> TRUE]

\* start_game, had it not counted the players
start_game_empty(g) ==
    IF ~g.is_open \/ g.is_running
    THEN [g |-> g, ok |-> FALSE]
    ELSE [g |-> [g EXCEPT !.is_open = FALSE, !.is_running = TRUE,
                          !.current_round = 0],
          ok |-> TRUE]

start_game(g) ==
    IF ~g.is_open \/ g.is_running \/ Cardinality(DOMAIN g.players) < 1
    THEN [g |-> g, ok |-> FALSE]
    ELSE [g |-> [g EXCEPT !.is_open = FALSE, !.is_running = TRUE,
                          !.current_round = 0],
          ok |-> TRUE]

\* next_round, build_question returning a question for the categories of
\* avail, the correct option at correct_idx
next_round(g, avail, correct_idx) ==
    IF ~g.is_running \/ g.is_finished THEN [g |-> g, ok |-> FALSE]
    ELSE LET n == g.current_round + 1
             g1 == [g EXCEPT !.current_round = n]
             rotated == TASK_TYPES[((n - 1) % Len(TASK_TYPES)) + 1]
             t == PickCategory(rotated, avail)
         IN  IF n > g.total_rounds
             THEN [g |-> [g1 EXCEPT !.is_running = FALSE, !.is_finished = TRUE],
                   ok |-> FALSE]
             ELSE IF t = ""
             THEN [g |-> [g1 EXCEPT !.task_type = rotated, !.is_running = FALSE,
                                    !.is_finished = TRUE],
                   ok |-> FALSE]
             ELSE [g |-> [g1 EXCEPT !.task_type = t,
                                    !.current_question =
                                        Some([task_type |-> t,
                                              correct_idx |-> correct_idx]),
                                    !.answers = EmptyDict,
                                    !.asked = @ \cup {n}],
                   ok |-> TRUE]

\* submit_answer, had it not looked at self.answers
submit_answer_again(g, user_id, choice, latency_ms) ==
    IF ~g.is_running \/ user_id \notin DOMAIN g.players THEN [g |-> g, ok |-> FALSE]
    ELSE IF g.current_question = None THEN [g |-> g, ok |-> FALSE]
    ELSE [g |-> [g EXCEPT !.answers = Put(@, user_id,
                     [choice |-> choice, time |-> latency_ms])],
          ok |-> TRUE]

\* submit_answer, latency_ms after round_start_time
submit_answer(g, user_id, choice, latency_ms) ==
    IF ~g.is_running \/ user_id \notin DOMAIN g.players THEN [g |-> g, ok |-> FALSE]
    ELSE IF user_id \in DOMAIN g.answers THEN [g |-> g, ok |-> FALSE]
    ELSE IF g.current_question = None THEN [g |-> g, ok |-> FALSE]
    ELSE [g |-> [g EXCEPT !.answers = Put(@, user_id,
                     [choice |-> choice, time |-> latency_ms])],
          ok |-> TRUE]

all_answered(g) == Cardinality(DOMAIN g.answers) >= Cardinality(DOMAIN g.players)

\* the points of end_round, had it paid every correct answer alike
ClassroomPointsFlat(is_correct, time) == IF is_correct THEN 2 ELSE 0

\* the points of end_round for an answer
ClassroomPoints(is_correct, time) ==
    IF is_correct THEN (IF time <= 5000 THEN 2 ELSE 1) ELSE 0

\* the entry of end_round for player uid in "player_results"
PlayerResult(g, uid) ==
    IF uid \notin DOMAIN g.answers
    THEN [correct |-> FALSE, points |-> 0]
    ELSE LET ans == g.answers[uid]
             is_correct == ans.choice = g.current_question[1].correct_idx
         IN  [correct |-> is_correct, points |-> ClassroomPoints(is_correct, ans.time)]

end_round(g) ==
    IF g.current_question = None THEN g
    ELSE LET res == [uid \in DOMAIN g.players |-> PlayerResult(g, uid)]
         IN  [g EXCEPT
                !.players = [uid \in DOMAIN g.players |->
                    [g.players[uid] EXCEPT
                        !.score = @ + res[uid].points,
                        !.correct = IF res[uid].correct THEN @ + 1 ELSE @,
                        !.wrong = IF res[uid].correct THEN @ ELSE @ + 1]],
                !.round_results = Append(@, [round |-> g.current_round,
                                             correct_idx |-> g.current_question[1].correct_idx,
                                             player_results |-> res]),
                !.current_question = None]

\* config.BOT_TOKEN and config.ADMIN_TOKEN
BOT_TOKEN == "bot-token"
ADMIN_TOKEN == "classroom2024"

\* the HMAC-SHA256 of the data check string of user and name under the key
\* derived from token: equal for equal arguments only
Hmac(token, user, name) == <<token, user, name>>

\* an X-Telegram-Init-Data header: its user field (0 when it has none) with
\* the first_name in it, and its hash field (None when it has none)
InitData(user, name, hash) == [user |-> user, name |-> name, hash |-> hash]

\* the header that is missing or empty
EmptyInitData == InitData(0, "", None)

\* the headers Telegram has made for the users
SignedInitDatas ==
    {InitData(u, n, Some(Hmac(BOT_TOKEN, u, n))) : u \in ClassUsers, n \in Names}

\* the headers that are sent: those of Telegram; none; one without hash; one
\* signed with a guessed token; one of Telegram with another user put in; one
\* of Telegram that names no user
InitDatas ==
    SignedInitDatas
        \cup {EmptyInitData}
        \cup {InitData(u, "Ann", None) : u \in ClassUsers}
        \cup {InitData(u, "Ann", Some(Hmac("guess", u, "Ann"))) : u \in ClassUsers}
        \cup {InitData(uv[1], "Ann", Some(Hmac(BOT_TOKEN, uv[2], "Ann"))) :
                  uv \in {x \in ClassUsers \X ClassUsers : x[1] # x[2]}}
        \cup {InitData(0, "Ann", Some(Hmac(BOT_TOKEN, 0, "Ann")))}

\* validate_init_data, had it not compared the hash
validate_init_data_unchecked(init_data) ==
    IF BOT_TOKEN = "" THEN None
    ELSE IF init_data.hash = None THEN None
    ELSE IF init_data.user # 0
    THEN Some([id |-> init_data.user, first_name |-> init_data.name])
    ELSE None

\* validate_init_data: None, or the user of the header
validate_init_data(init_data) ==
    IF BOT_TOKEN = "" THEN None
    ELSE IF init_data.hash = None THEN None
    ELSE IF Hmac(BOT_TOKEN, init_data.user, init_data.name) # init_data.hash[1]
    THEN None
    ELSE IF init_data.user # 0
    THEN Some([id |-> init_data.user, first_name |-> init_data.name])
    ELSE None

\* an HTTP response: its status and the "ok" of its body (of the body of
\* GET /api/state, which has none: that the state is in it)
Response(via, route, status, ok) ==
    [via |-> via, route |-> route, status |-> status, ok |-> ok]

\* handle_join of the aiohttp server: the game it leaves and its response
handle_join(g, init_data) ==
    LET user == validate_init_data(init_data)
    IN  IF user = None
        THEN [g |-> g, r |-> Response("tma_server", "join", 401, FALSE)]
        ELSE LET j == join(g, user[1].id, user[1].first_name)
             IN  [g |-> j.g, r |-> Response("tma_server", "join", 200, j.ok)]

\* handle_answer of the aiohttp server
handle_answer(g, init_data, body, latency_ms) ==
    LET user == validate_init_data(init_data)
    IN  IF user = None
        THEN [g |-> g, r |-> Response("tma_server", "answer", 401, FALSE)]
        ELSE IF body = None
        THEN [g |-> g, r |-> Response("tma_server", "answer", 400, FALSE)]
        ELSE LET a == submit_answer(g, user[1].id, body[1], latency_ms)
             IN  [g |-> a.g, r |-> Response("tma_server", "answer", 200, a.ok)]

\* what a question shows of itself: its prompt, which names the category and
\* a word (the word is not kept), and its options
Shown(q) == [prompt |-> q.task_type, options |-> Options]

\* the entries of get_leaderboard and get_full_leaderboard: the players are
\* fewer than the 5 of the top, and the order of the entries, in which the
\* order of insertion breaks the ties, is not kept
Leaderboard(players) ==
    {[user_id |-> u, name |-> players[u].name, score |-> players[u].score,
      correct |-> players[u].correct, wrong |-> players[u].wrong] :
         u \in DOMAIN players}

\* to_state_dict for user_id (0 for None), without time_remaining and
\* my_rank: the time and the order of insertion are not kept
to_state_dict(g, user_id) ==
    [is_open |-> g.is_open, is_running |-> g.is_running,
     is_finished |-> g.is_finished,
     player_count |-> Cardinality(DOMAIN g.players),
     current_round |-> g.current_round, total_rounds |-> g.total_rounds,
     leaderboard |-> Leaderboard(g.players),
     my |-> IF user_id # 0 /\ user_id \in DOMAIN g.players
            THEN Some([my_score |-> g.players[user_id].score,
                       my_correct |-> g.players[user_id].correct,
                       my_wrong |-> g.players[user_id].wrong,
                       already_answered |-> user_id \in DOMAIN g.answers])
            ELSE None,
     question |-> IF g.current_question # None /\ g.is_running
                  THEN Some([prompt |-> Shown(g.current_question[1]).prompt,
                             options |-> Shown(g.current_question[1]).options,
                             task_type |-> g.task_type])
                  ELSE None,
     final_leaderboard |-> IF g.is_finished THEN Some(Leaderboard(g.players))
                           ELSE None]

\* handle_state of the aiohttp server: the state it returns
handle_state(g, init_data) ==
    LET user == IF init_data = EmptyInitData THEN None
                ELSE validate_init_data(init_data)
    IN  to_state_dict(g, IF user = None THEN 0 ELSE user[1].id)

\* GET /api/state
api_state ==
    \E init_data \in InitDatas :
        /\ handle_state(game, init_data).is_open = game.is_open
        /\ response' = Some(Response("tma_server", "state", 200, TRUE))
        /\ Tick
        /\ UNCHANGED <<game, round_task, game_state, bot>>

\* the X-Admin-Token headers that are sent
AdminTokens == {ADMIN_TOKEN, ""}

check_admin_any(token) == TRUE

check_admin(token) == token = ADMIN_TOKEN

\* the four admin handlers of the aiohttp server, by their route: open (with
\* the rounds of its body), start, reset and next
handle_admin(g, token, route, rounds, avail, correct_idx) ==
    IF ~check_admin(token)
    THEN [g |-> g, r |-> Response("tma_server", route, 403, FALSE)]
    ELSE IF route = "admin/open"
    THEN [g |-> open_lobby(rounds), r |-> Response("tma_server", route, 200, TRUE)]
    ELSE IF route = "admin/start"
    THEN LET st == start_game(g)
         IN  [g |-> IF st.ok THEN next_round(st.g, avail, correct_idx).g ELSE st.g,
              r |-> Response("tma_server", route, 200, st.ok)]
    ELSE IF route = "admin/reset"
    THEN [g |-> reset, r |-> Response("tma_server", route, 200, TRUE)]
    ELSE LET g1 == IF g.current_question # None THEN end_round(g) ELSE g
             nx == next_round(g1, avail, correct_idx)
         IN  [g |-> nx.g, r |-> Response("tma_server", route, 200, nx.ok)]

\* what a step of the aiohttp server leaves: the game and the response
Served(h) ==
    /\ game' = h.g
    /\ response' = Some(h.r)

\* POST /api/join
api_join ==
    \E init_data \in InitDatas :
        /\ Served(handle_join(game, init_data))
        /\ Tick
        /\ UNCHANGED <<round_task, game_state, bot>>

\* POST /api/answer
api_answer ==
    \E init_data \in InitDatas, body \in Bodies, latency_ms \in ClassLatencies :
        /\ Served(handle_answer(game, init_data, body, latency_ms))
        /\ Tick
        /\ UNCHANGED <<round_task, game_state, bot>>

\* POST /api/admin/open
handle_admin_open ==
    \E token \in AdminTokens, rounds \in 0..ClassRounds :
        /\ Served(handle_admin(game, token, "admin/open", rounds, {}, 0))
        /\ Tick
        /\ UNCHANGED <<round_task, game_state, bot>>

\* POST /api/admin/start
handle_admin_start ==
    \E token \in AdminTokens, avail \in ClassAvailChoices, correct_idx \in CorrectIdxChoices :
        /\ Served(handle_admin(game, token, "admin/start", 0, avail, correct_idx))
        /\ Tick
        /\ UNCHANGED <<round_task, game_state, bot>>

\* POST /api/admin/reset
handle_admin_reset ==
    \E token \in AdminTokens :
        /\ Served(handle_admin(game, token, "admin/reset", 0, {}, 0))
        /\ Tick
        /\ UNCHANGED <<round_task, game_state, bot>>

\* POST /api/admin/next
handle_admin_next ==
    \E token \in AdminTokens, avail \in ClassAvailChoices, correct_idx \in CorrectIdxChoices :
        /\ Served(handle_admin(game, token, "admin/next", 0, avail, correct_idx))
        /\ Tick
        /\ UNCHANGED <<round_task, game_state, bot>>

\* round_timer_loop wakes from its sleep of 0.5 s and ends the round: the
\* time is up (expired) or everybody has answered
LoopEndRound ==
    \E expired \in BOOLEAN :
        /\ round_task = "sleep"
        /\ game.is_running /\ game.current_question # None
        /\ expired \/ all_answered(game)
        /\ game' = end_round(game)
        /\ round_task' = "pause"
        /\ Tick
        /\ UNCHANGED <<game_state, response, bot>>

\* round_timer_loop wakes from its pause of 2 s and calls next_round
LoopNextRound ==
    \E avail \in ClassAvailChoices, correct_idx \in CorrectIdxChoices :
        /\ round_task = "pause"
        /\ game' = next_round(game, avail, correct_idx).g
        /\ round_task' = "sleep"
        /\ Tick
        /\ UNCHANGED <<game_state, response, bot>>

--------------------------------------------------------------------------
(* netlify/functions/tma-api.py: the serverless function *)

\* _game_state as the module is loaded
GameState ==
    [is_open |-> FALSE, is_running |-> FALSE, is_finished |-> FALSE,
     players |-> EmptyDict, current_round |-> 0, current_question |-> None,
     answers |-> EmptyDict]

\* the user id of handle_join when the body names none
DefaultUserId == 123

\* validate_init_data of the function
netlify_validate_init_data(init_data) ==
    IF BOT_TOKEN = "" \/ init_data = EmptyInitData THEN None
    ELSE validate_init_data(init_data)

\* handle_join of the function; the body names user_id (0 when it names none)
netlify_handle_join(gs, init_data, body_user_id, body_name) ==
    LET user == netlify_validate_init_data(init_data)
        user_id == IF user # None THEN user[1].id
                   ELSE IF body_user_id = 0 THEN DefaultUserId ELSE body_user_id
        name == IF user # None THEN user[1].first_name ELSE body_name
    IN  IF ~gs.is_open
        THEN [g |-> gs, r |-> Response("tma-api", "join", 400, FALSE)]
        ELSE [g |-> IF user_id \notin DOMAIN gs.players
                    THEN [gs EXCEPT !.players = Put(@, user_id,
                             [name |-> name, score |-> 0, correct |-> 0, wrong |-> 0])]
                    ELSE gs,
              r |-> Response("tma-api", "join", 200, TRUE)]

\* handle_answer of the function; a body that is no JSON gives choice -1
netlify_handle_answer(gs, init_data, body) ==
    LET user == netlify_validate_init_data(init_data)
        choice == IF body = None THEN -1 ELSE body[1]
    IN  IF user = None
        THEN [g |-> gs, r |-> Response("tma-api", "answer", 401, FALSE)]
        ELSE IF user[1].id \notin DOMAIN gs.players
        THEN [g |-> gs, r |-> Response("tma-api", "answer", 400, FALSE)]
        ELSE IF user[1].id \in DOMAIN gs.answers
        THEN [g |-> gs, r |-> Response("tma-api", "answer", 400, FALSE)]
        ELSE [g |-> [gs EXCEPT !.answers = Put(@, user[1].id,
                         [choice |-> choice, time |-> 0])],
              r |-> Response("tma-api", "answer", 200, TRUE)]

\* handle_state of the function: the state it returns (total_rounds is
\* never written), without my_rank and the order of the leaderboard
netlify_handle_state(gs, init_data) ==
    LET user == IF init_data = EmptyInitData THEN None
                ELSE netlify_validate_init_data(init_data)
        user_id == IF user = None THEN 0 ELSE user[1].id
    IN  [is_open |-> gs.is_open, is_running |-> gs.is_running,
         is_finished |-> gs.is_finished,
         player_count |-> Cardinality(DOMAIN gs.players),
         current_round |-> gs.current_round, total_rounds |-> 10,
         leaderboard |-> {[user_id |-> u, name |-> gs.players[u].name,
                           score |-> gs.players[u].score] : u \in DOMAIN gs.players},
         my |-> IF user_id # 0 /\ user_id \in DOMAIN gs.players
                THEN Some([my_score |-> gs.players[user_id].score,
                           my_correct |-> gs.players[user_id].correct,
                           already_answered |-> user_id \in DOMAIN gs.answers])
                ELSE None,
         question |-> IF gs.current_question # None
                      THEN Some([task_type |-> gs.current_question[1].task_type,
                                 prompt |-> Shown(gs.current_question[1]).prompt,
                                 options |-> Shown(gs.current_question[1]).options,
                                 correct_idx |-> gs.current_question[1].correct_idx])
                      ELSE None]

\* handle_admin of the function; the path names the action
netlify_handle_admin(gs, token, path, avail, correct_idx) ==
    IF token # ADMIN_TOKEN
    THEN [g |-> gs, r |-> Response("tma-api", "admin", 403, FALSE)]
    ELSE IF path = "open"
    THEN [g |-> [gs EXCEPT !.is_open = TRUE, !.is_running = FALSE,
                           !.is_finished = FALSE, !.players = EmptyDict,
                           !.current_round = 0],
          r |-> Response("tma-api", "admin", 200, TRUE)]
    ELSE IF path = "start"
    THEN IF Cardinality(DOMAIN gs.players) < 1
         THEN [g |-> gs, r |-> Response("tma-api", "admin", 400, FALSE)]
         ELSE [g |-> [gs EXCEPT !.is_open = FALSE, !.is_running = TRUE,
                                !.current_round = 1,
                                !.current_question =
                                    IF "SYNONYM" \in avail
                                    THEN Some([task_type |-> "SYNONYM",
                                               correct_idx |-> correct_idx])
                                    ELSE @],
               r |-> Response("tma-api", "admin", 200, TRUE)]
    ELSE IF path = "reset"
    THEN [g |-> GameState, r |-> Response("tma-api", "admin", 200, TRUE)]
    ELSE [g |-> gs, r |-> Response("tma-api", "admin", 400, FALSE)]

\* the actions that the paths of the admin requests name
AdminPaths == {"open", "start", "reset", "next"}

\* what an invocation of the function leaves
Invoked(h) ==
    /\ game_state' = h.g
    /\ response' = Some(h.r)

\* the bodies of the join requests: the user_id they name, 0 for none
JoinBodies == {0} \cup ClassUsers

netlify_join ==
    \E init_data \in InitDatas, body_user_id \in JoinBodies, body_name \in Names :
        /\ Invoked(netlify_handle_join(game_state, init_data, body_user_id, body_name))
        /\ Tick
        /\ UNCHANGED <<game, round_task, bot>>

netlify_answer ==
    \E init_data \in InitDatas, body \in Bodies :
        /\ Invoked(netlify_handle_answer(game_state, init_data, body))
        /\ Tick
        /\ UNCHANGED <<game, round_task, bot>>

netlify_state ==
    \E init_data \in InitDatas :
        /\ netlify_handle_state(game_state, init_data).is_open = game_state.is_open
        /\ response' = Some(Response("tma-api", "state", 200, TRUE))
        /\ Tick
        /\ UNCHANGED <<game, round_task, game_state, bot>>

netlify_admin ==
    \E token \in AdminTokens, path \in AdminPaths,
       avail \in ClassAvailChoices, correct_idx \in CorrectIdxChoices :
        /\ Invoked(netlify_handle_admin(game_state, token, path, avail, correct_idx))
        /\ Tick
        /\ UNCHANGED <<game, round_task, bot>>

\* a cold start of the function: the module is loaded anew
netlify_cold_start ==
    /\ game_state # GameState
    /\ game_state' = GameState
    /\ Tick
    /\ UNCHANGED <<game, round_task, response, bot>>

\* the two backends as they start
WebStart ==
    /\ game = reset
    /\ round_task = "sleep"
    /\ game_state = GameState
    /\ response = None

--------------------------------------------------------------------------
(* The specifications *)

\* the state after construction: app.py has built the Application, nothing
\* has been handled yet. The store is a file that outlives the process: it
\* holds the n events created so far, the rows of them that are active and
\* the players enrolled
Booted(sc, rows, n, enrolled) ==
    /\ db_is_active = rows
    /\ db_events = n
    /\ db_players = enrolled
    /\ db_auto_off = {}
    /\ rr_log = {}
    /\ wl_log = {}
    /\ global_event = None
    /\ active_duels = {}
    /\ duels = <<>>
    /\ user_to_duel = [u \in Players |-> 0]
    /\ duel_seq = 0
    /\ job_queue = {}
    /\ handler = Idle
    /\ tasks = {}
    /\ pure = None
    /\ solo_sessions = [u \in Players |-> 0]
    /\ solos = <<>>
    /\ WebStart
    /\ scope = sc

\* the first start, the store empty
Start(sc) == Booted(sc, {}, 0, {})

\* one duel in full, its history kept: the players join and answer, the
\* timers fire, sends raise, the event is stopped
Init ==
    Start([players |-> 1..MainPlayers, duels |-> MainDuels, rounds |-> MainRounds,
           events |-> MaxEvents, steps |-> -1, history |-> TRUE, timers |-> FALSE])

Next ==
    \/ Resume
    \/ SendDone
    \/ SendFails
    \/ RoundStart
    \/ TimerFires
    \/ Callback
    \/ cmd_join
    \/ cmd_event_start
    \/ cmd_event_stop
    \/ end_event_job

Spec == Init /\ [][Next]_vars

\* the queue and the duels around it: the players join, pause, leave and
\* resume, and leave their rounds to the timer
InitQueue ==
    Start([players |-> 1..QueuePlayers, duels |-> QueueDuels, rounds |-> QueueRounds,
           events |-> MaxEvents, steps |-> -1, history |-> FALSE, timers |-> FALSE])

NextQueue ==
    \/ Resume
    \/ SendDone
    \/ SendFails
    \/ RoundStart
    \/ TimerFires
    \/ cmd_join
    \/ cmd_resume
    \/ cmd_pause
    \/ cmd_leave
    \/ cmd_event_start
    \/ cmd_event_stop
    \/ end_event_job

SpecQueue == InitQueue /\ [][NextQueue]_vars

\* two players who join once an event is started and play duel after duel,
\* every message delivered
InitRematch ==
    Start([players |-> 1..RematchPlayers, duels |-> RematchDuels,
           rounds |-> RematchRounds, events |-> MaxEvents,
           steps |-> RematchSteps, history |-> FALSE, timers |-> FALSE])

NextRematch ==
    \/ Resume
    \/ SendDone
    \/ RoundStart
    \/ TimerFires
    \/ Callback
    \/ cmd_join
    \/ cmd_event_start

SpecRematch == InitRematch /\ [][NextRematch]_vars

\* solo mode: a player starts, restarts and stops solo sessions and answers
\* their questions, with or without an event joined
InitSolo ==
    Start([players |-> 1..SoloPlayers, duels |-> 0, rounds |-> SoloRounds,
           events |-> MaxEvents, steps |-> SoloSteps, history |-> FALSE, timers |-> FALSE])

NextSolo ==
    \/ cmd_solo
    \/ cmd_solo_stop
    \/ SoloSendDone
    \/ SoloSendFails
    \/ SoloEditDone
    \/ SoloEditFails
    \/ SoloTimerFires
    \/ SoloCallback
    \/ SendDone
    \/ cmd_join
    \/ cmd_event_start

SpecSolo == InitSolo /\ [][NextSolo]_vars

\* the event clock: events are started, stopped and expire, their phase
\* rotates, players join and their duel runs on the timer; the process starts
\* on an empty store or on one that holds an active event with a player
\* enrolled
InitClock ==
    \E boot \in {<<{}, 0, {}>>, <<{1}, 1, {<<1, 1>>}>>} :
        Booted([players |-> 1..ClockPlayers, duels |-> ClockDuels,
                rounds |-> ClockRounds, events |-> ClockEvents, steps |-> -1,
                history |-> FALSE, timers |-> FALSE],
               boot[1], boot[2], boot[3])

NextClock ==
    \/ cmd_event_start
    \/ cmd_event_stop
    \/ end_event_job
    \/ rotate_phase_job
    \/ cmd_join
    \/ SendDone
    \/ Resume
    \/ RoundStart
    \/ TimerFires

SpecClock == InitClock /\ [][NextClock]_vars

--------------------------------------------------------------------------
(* try_matchmake on its own *)

\* the queues of an event: no player twice (maybe_enqueue_and_match appends
\* a player who is not in the queue)
Queues ==
    {q \in UNION {[1..n -> Players] : n \in 0..MatchQueueLen} :
        \A i, j \in DOMAIN q : i # j => q[i] # q[j]}

\* the lists that the queue can be made to hold, a player more than once
\* (maybe_enqueue_and_match puts a player in once; try_matchmake scans for
\* an entry that is another player's)
Lists == UNION {[1..n -> Players] : n \in 0..MatchQueueLen}

\* an event is started, everybody is enrolled, nobody is bound, and the queue
\* is any of qs; the phase of the event rotates
Matching(qs) ==
    /\ db_is_active = {1}
    /\ db_events = 1
    /\ db_players = {<<1, u>> : u \in Players}
    /\ db_auto_off = {}
    /\ rr_log = {}
    /\ wl_log = {}
    /\ global_event \in {Some([GlobalEventState(1) EXCEPT !.phase_job = TRUE,
                                                          !.end_job = TRUE,
                                                          !.queue = q]) : q \in qs}
    /\ active_duels = {}
    /\ duels = <<>>
    /\ user_to_duel = [u \in Players |-> 0]
    /\ duel_seq = 0
    /\ job_queue = {Job("rotate_phase_job", 1, 0, 0), Job("end_event_job", 1, 0, 0)}
    /\ handler = Idle
    /\ tasks = {}
    /\ pure = None
    /\ solo_sessions = [u \in Players |-> 0]
    /\ solos = <<>>
    /\ WebStart
    /\ scope = [players |-> Players, duels |-> MatchQueueLen, rounds |-> MainRounds,
                events |-> MaxEvents, steps |-> -1, history |-> FALSE, timers |-> FALSE]

InitMatch == Matching(Queues)

\* one call of try_matchmake; pure keeps the queue it was called with
Matchmake ==
    /\ pure = None
    /\ Commit(Frame("try_matchmake", 0, 0, 0, 0, <<0, 0>>),
              [w |-> try_matchmake(World), pc |-> "end"])
    /\ pure' = Some([queue |-> global_event[1].queue])
    /\ UNCHANGED <<scope, solo_sessions, solos, web>>

NextMatch ==
    \/ Matchmake
    \/ rotate_phase_job

SpecMatch == InitMatch /\ [][NextMatch]_vars

\* try_matchmake on the lists
InitScan == Matching(Lists)

SpecScan == InitScan /\ [][NextMatch]_vars

--------------------------------------------------------------------------
(* score_points on its own *)

LatencySamples == {LatencyStep * i : i \in 0..LatencySteps} \cup {2001, 5001}

\* one call of score_points; pure keeps its arguments and its result
Score ==
    \E is_correct \in BOOLEAN, latency_ms \in LatencySamples :
        /\ pure' = Some([is_correct |-> is_correct, latency_ms |-> latency_ms,
                         points |-> score_points(is_correct, latency_ms)])
        /\ UNCHANGED <<db_is_active, db_events, db_players, db_auto_off, rr_log, wl_log,
                       global_event, active_duels, duels, user_to_duel, duel_seq,
                       job_queue, handler, tasks, scope,
                       solo_sessions, solos, web>>

NextScore == Score

SpecScore == Init /\ [][NextScore]_vars

--------------------------------------------------------------------------
(* The classroom game *)

\* no bot
NoBot == [players |-> {}, duels |-> 0, rounds |-> 0, events |-> 0, steps |-> -1,
          history |-> FALSE, timers |-> FALSE]

\* the aiohttp server: the lobby is opened, the users join and answer, the
\* admin starts, advances and resets the game, round_timer_loop runs
InitClassroom == Start(NoBot)

NextClassroom ==
    \/ api_join
    \/ api_answer
    \/ handle_admin_open
    \/ handle_admin_start
    \/ handle_admin_reset
    \/ handle_admin_next
    \/ LoopEndRound
    \/ LoopNextRound

SpecClassroom == InitClassroom /\ [][NextClassroom]_vars

\* the answer endpoint of the two backends, over their first requests: of
\* the aiohttp server, with what brings its game to a question, and of the
\* serverless function
InitApi == Start([NoBot EXCEPT !.steps = ApiSteps])

NextApi ==
    \/ api_join
    \/ api_answer
    \/ handle_admin_open
    \/ handle_admin_start
    \/ api_state
    \/ netlify_join
    \/ netlify_answer
    \/ netlify_state
    \/ netlify_admin
    \/ netlify_cold_start

SpecApi == InitApi /\ [][NextApi]_vars

--------------------------------------------------------------------------
(* The claims *)

\* the queue of the event, empty when state.global_event is None
Queue == IF global_event = None THEN <<>> ELSE global_event[1].queue

Participants(d) == {duels[d].p1_id, duels[d].p2_id}

\* the coroutines that hold duel d
FramesOf(d) == {f \in Frames : f.d = d}

\* C1: in every reachable state each player is p1 or p2 of at most one duel
\* of state.active_duels, and no duel of it has p1 = p2.
C1_OneActiveDuelPerPlayer ==
    /\ \A u \in Players :
           Cardinality({d \in active_duels : u \in Participants(d)}) <= 1
    /\ \A d \in active_duels : duels[d].p1_id # duels[d].p2_id

\* C2: in every reachable state no player of the event's queue is bound in
\* state.user_to_duel.
C2_QueueDisjointFromBound ==
    \A i \in 1..Len(Queue) : user_to_duel[Queue[i]] = 0

\* a player waits in the queue while two others are bound to a duel that a
\* second match has followed
C2_Witness ==
    /\ Len(Queue) > 0
    /\ \E u \in Players : user_to_duel[u] # 0
    /\ duel_seq = 2

\* C3: the outcome of a round is applied at most once: for every duel, round
\* and player, record_round_result is called at most once (no logged call
\* has an ordinal above 1), the scores being added to in the same statements.
C3_RoundAppliedOnce ==
    \A e \in rr_log : e[4] = 1

\* C4: applied to a queue of at least 2 distinct unbound players, one call
\* of try_matchmake shortens the queue by exactly 2 and creates exactly one
\* duel, which binds the two players it removed.
C4_OneDuelPerCall ==
    (pure # None /\ Len(pure[1].queue) >= 2) =>
        /\ Len(Queue) = Len(pure[1].queue) - 2
        /\ duel_seq = 1
        /\ active_duels = {1}
        /\ \A u \in Players :
               user_to_duel[u] = (IF InSeq(u, pure[1].queue) /\ ~InSeq(u, Queue)
                                  THEN 1 ELSE 0)

\* C4 as the code has it: applied to a queue of n >= 2 distinct unbound
\* players, one call of try_matchmake pairs them until fewer than 2 wait: it
\* shortens the queue by 2 * (n \div 2) and creates n \div 2 duels, each of
\* two distinct players it removed from the queue, both bound to it.
C4_PairsUntilOneWaits ==
    (pure # None /\ Len(pure[1].queue) >= 2) =>
        LET n == Len(pure[1].queue)
        IN  /\ Len(Queue) = n - 2 * (n \div 2)
            /\ duel_seq = n \div 2
            /\ active_duels = 1..(n \div 2)
            /\ \A d \in active_duels :
                   /\ duels[d].p1_id # duels[d].p2_id
                   /\ \A u \in Participants(d) :
                          /\ InSeq(u, pure[1].queue)
                          /\ ~InSeq(u, Queue)
                          /\ user_to_duel[u] = d
            /\ \A u \in Players :
                   user_to_duel[u] # 0 => u \in Participants(user_to_duel[u])

\* try_matchmake has been applied to a queue of four and made two duels
C4_Witness ==
    /\ pure # None
    /\ Len(pure[1].queue) = 4
    /\ duel_seq = 2
    /\ Queue = <<>>

\* C5: from an active event with no duel made yet, when the enqueue of the
\* second of two distinct eligible players completes, the queue holding
\* these two, exactly one duel exists, the queue is empty and both players
\* map to that duel.
C5_TwoEnqueuesOneDuel ==
    [][\A f \in Frames : \A a, b \in Players :
          (/\ a # b
           /\ db_active # 0
           /\ duel_seq = 0
           /\ Queue = <<a, b>>
           /\ Eligible(World, a)
           /\ Eligible(World, b)
           /\ f.pc = "enq2_send"
           /\ Run(f, DeliveredStep(World, f)))
          => /\ duel_seq' = 1
             /\ active_duels' = {1}
             /\ {duels'[1].p1_id, duels'[1].p2_id} = {a, b}
             /\ global_event'[1].queue = <<>>
             /\ user_to_duel'[a] = 1
             /\ user_to_duel'[b] = 1]_vars

\* the first duel has just been made of the two players who were waiting
C5_Witness ==
    /\ duel_seq = 1
    /\ active_duels = {1}
    /\ Queue = <<>>
    /\ handler = Idle
    /\ \E f \in tasks : f.d = 1 /\ f.pc = "flow_start"
    /\ \A u \in Participants(1) : user_to_duel[u] = 1

\* an answer submission that C6 says is ignored: to a duel that is unknown or
\* finished, from a non-participant, for another round than the duel is in,
\* or from a player whose answer for the round is recorded
RejectedSubmission(uid, d, round_idx) ==
    \/ d \notin active_duels
    \/ duels[d].is_done
    \/ uid \notin Participants(d)
    \/ duels[d].round_idx # round_idx
    \/ Answered(duels[d], uid)

\* C6: an answer submission that is rejected leaves everything as it is:
\* the recorded answers, the scores, the round index and the ledger, and it
\* triggers no reveal (on_callback returns at once).
C6_RejectedAnswerChangesNothing ==
    \A uid \in Players, d \in 1..(scope.duels + 1), round_idx \in 0..(scope.rounds + 1),
       a \in AnswerInputs :
        RejectedSubmission(uid, d, round_idx) =>
            on_callback(World, uid, d, round_idx, a[1], a[2]) = [w |-> World, pc |-> "end"]

\* a round is open, one player's answer is recorded and the next update can
\* be handled: that player's second answer would be rejected, and so would
\* its first for the round before
C6_Witness ==
    \E d \in active_duels :
        /\ handler = Idle
        /\ ~duels[d].is_done
        /\ duels[d].round_idx = 1
        /\ duels[d].active_question # None
        /\ Cardinality(duels[d].answers) = 1

\* C7: when the timer of a round fires with no answer recorded, both players
\* get 0 points for the round (the scores stay), the round index goes up by
\* exactly 1, and the ledger gets exactly two record_round_result calls for
\* the round, one per player, with 0 points and is_correct false.
C7_TimeoutWithNoAnswers ==
    \A d \in DOMAIN duels :
        duels[d].timeout_empty # None =>
            LET t == duels[d].timeout_empty[1]
            IN  /\ duels[d].round_idx \in {t.round_idx, t.round_idx + 1}
                /\ duels[d].p1_score = t.p1_score
                /\ duels[d].p2_score = t.p2_score
                /\ {e \in rr_log : e[1] = d /\ e[2] = t.round_idx}
                       = {<<d, t.round_idx, duels[d].p1_id, 1, 0, FALSE>>,
                          <<d, t.round_idx, duels[d].p2_id, 1, 0, FALSE>>}

\* C8: when a duel has completed all its rounds with the score of player A
\* above that of player B, record_duel_win_loss(winner A, loser B) has been
\* called exactly once for it and, once no coroutine holds the duel any more,
\* the duel is out of state.active_duels, both players are out of
\* state.user_to_duel for it, and maybe_enqueue_and_match has been called
\* for both.
C8_WinRecordedPlayersReleased ==
    \A d \in DOMAIN duels :
        LET duel == duels[d]
            A == IF duel.p1_score > duel.p2_score THEN duel.p1_id ELSE duel.p2_id
            B == IF duel.p1_score > duel.p2_score THEN duel.p2_id ELSE duel.p1_id
        IN  (duel.regular /\ duel.p1_score # duel.p2_score) =>
                /\ WinLossCalls(wl_log, d) = {<<d, 1, A, B>>}
                /\ FramesOf(d) = {} =>
                       /\ d \notin active_duels
                       /\ user_to_duel[A] # d
                       /\ user_to_duel[B] # d
                       /\ duel.offered = {A, B}

\* C9: when a round start finds no question in any category, the duel ends
\* as a forced draw: record_duel_win_loss is never called for it and, once no
\* coroutine holds the duel any more, it is done and out of
\* state.active_duels and both players are unbound; and a question that a
\* round start did find is of a category that yields one, which is the
\* category the duel goes on in.
C9_NoQuestionForcedDraw ==
    /\ \A d \in DOMAIN duels :
           duels[d].noq =>
               /\ WinLossCalls(wl_log, d) = {}
               /\ FramesOf(d) = {} =>
                      /\ duels[d].is_done
                      /\ d \notin active_duels
                      /\ user_to_duel[duels[d].p1_id] # d
                      /\ user_to_duel[duels[d].p2_id] # d
    /\ \A d \in active_duels :
           duels[d].active_question # None =>
               /\ duels[d].active_question[1].task_type
                      \in duels[d].active_question[1].avail
               /\ duels[d].task_type = duels[d].active_question[1].task_type

\* C10: a correct answer gets the full value only up to 2000 ms and, for
\* every latency above 2000 ms, one and the same smaller positive value, the
\* one it gets above 5000 ms.
C10_ReducedAboveFast ==
    (pure # None /\ pure[1].is_correct) =>
        LET p == pure[1]
            full == score_points(TRUE, 0)
            last == score_points(TRUE, LatencyStep * LatencySteps)
        IN  /\ p.latency_ms <= 2000 => p.points = full
            /\ p.latency_ms > 2000 => (p.points = last /\ 0 < last /\ last < full)

\* C10 as the code has it: a correct answer gets the full value, 2, up to
\* 5000 ms and the smaller positive value, 1, for every latency above
\* 5000 ms; the tier between 2000 ms and 5000 ms pays the full value.
C10_FullUpToSlow ==
    (pure # None /\ pure[1].is_correct) =>
        LET p == pure[1]
        IN  /\ p.latency_ms <= 5000 => p.points = 2
            /\ p.latency_ms > 5000 => p.points = 1

\* score_points has paid a correct answer of the middle tier the full value
C10_Witness ==
    /\ pure # None
    /\ pure[1].is_correct
    /\ pure[1].latency_ms > 2000
    /\ pure[1].latency_ms <= 5000
    /\ pure[1].points = 2

\* C11: score_points does not rise with the latency of a correct answer and
\* stays positive (for all latencies l1 <= l2, points(true, l1) >=
\* points(true, l2) > 0), and it is 0 for an incorrect answer at every latency.
C11_MonotoneInLatency ==
    pure # None =>
        LET p == pure[1]
        IN  IF p.is_correct
            THEN /\ p.points > 0
                 /\ \A l2 \in LatencySamples :
                        p.latency_ms <= l2 =>
                            /\ p.points >= score_points(TRUE, l2)
                            /\ score_points(TRUE, l2) > 0
            ELSE p.points = 0

\* score_points has paid a correct answer slower than 5000 ms less than it
\* pays the fastest one
C11_Witness ==
    /\ pure # None
    /\ pure[1].is_correct
    /\ pure[1].latency_ms > 5000
    /\ pure[1].points < score_points(TRUE, 0)
    /\ pure[1].points > 0

\* C12: a player never has two solo sessions going on at once: once cmd_solo
\* has replaced session S1 of a player by S2, the session table holds S2 and
\* nothing else for the player for as long as S2 has neither finished nor
\* been stopped, and no timer or callback carrying the id of S1 reveals a
\* round: the score, the reveals and the ledger calls of S1 stay as they were
\* and no round of S1 or S2 is revealed under the other's id.
C12_ReplacedSessionIsDead ==
    \A s1 \in DOMAIN solos :
        solos[s1].replaced # None =>
            LET rep == solos[s1].replaced[1]
                s2 == rep.by
                uid == solos[s1].user_id
            IN  /\ solo_sessions[uid] # s1
                /\ ~solos[s2].ended => solo_sessions[uid] = s2
                /\ solos[s1].score = rep.score
                /\ solos[s1].reveals = rep.reveals
                /\ Cardinality(SoloCalls(rr_log, s1)) = rep.calls
                /\ ~solos[s1].foreign
                /\ ~solos[s2].foreign

\* the jobs of the event clock that are scheduled
EventJobs == {j \in job_queue : j.fn \in {"rotate_phase_job", "end_event_job"}}

\* C13: when stop_event has run (in cmd_event_stop, in end_event_job) the
\* store has no active event, there is no in-memory event, nobody waits in a
\* queue, and no rotation or expiry of the stopped event is left to act: the
\* jobs of the event clock that are scheduled are always those of the event
\* in memory, which is the active one. stop_event is idempotent: done twice
\* it gives what it gives done once, and with no event it changes nothing.
C13_StopEventStopsAll ==
    /\ \A j \in EventJobs :
           /\ global_event # None
           /\ j.a = global_event[1].event_id
           /\ j.a = db_active
    /\ db_is_active = {} => (global_event = None /\ Queue = <<>> /\ EventJobs = {})
    /\ stop_event(stop_event(World)) = stop_event(World)
    /\ deactivate_events(deactivate_events(db_is_active)) = deactivate_events(db_is_active)
    /\ deactivate_events(db_is_active) = {}
    /\ stop_event(World).ge = None
    /\ {j \in stop_event(World).jq : j.fn \in {"rotate_phase_job", "end_event_job"}} = {}
    /\ (global_event = None /\ db_is_active = {}) =>
           (stop_event(World) = World /\ deactivate_events(db_is_active) = db_is_active)

\* an event that a player had joined has been stopped while a later one had
\* not yet been started
C13_Witness ==
    /\ db_events = 2
    /\ db_is_active = {}
    /\ global_event = None
    /\ \E u \in Players : <<2, u>> \in db_players
    /\ job_queue = {}

\* the timers that are scheduled for duel d
TimersOf(d) == {j \in job_queue : j.fn = "end_round_job" /\ j.a = d}

\* stop_event has run while duel d was active
EventStopped(d) == duels[d].at_stop

\* C14: stop_event leaves state.active_duels, state.user_to_duel and the
\* round state of every duel as they are; a duel whose event has been stopped
\* still runs to Finished: once no coroutine holds it and no timer is
\* scheduled for it, it is done, by finish_duel after its last round or for
\* want of a question, it is out of state.active_duels and its players are
\* unbound; and while no event is active nobody is put in a queue.
C14_StopLeavesDuelsRunning ==
    /\ stop_event(World).ad = active_duels
    /\ stop_event(World).ud = user_to_duel
    /\ stop_event(World).du = duels
    /\ \A d \in DOMAIN duels :
           (EventStopped(d) /\ FramesOf(d) = {} /\ TimersOf(d) = {}) =>
               /\ duels[d].is_done
               /\ duels[d].regular \/ duels[d].noq
               /\ d \notin active_duels
               /\ user_to_duel[duels[d].p1_id] # d
               /\ user_to_duel[duels[d].p2_id] # d
    /\ db_is_active = {} => Queue = <<>>

\* the entries of uid in the queue q
Entries(q, uid) == Len(SelectSeq(q, LAMBDA x : x = uid))

QueueOf(w) == IF w.ge = None THEN <<>> ELSE w.ge[1].queue

\* C15: called for a player while no event is active, or who is not enrolled
\* in the active event, or whose auto-queue is off, or who is bound to a
\* duel, maybe_enqueue_and_match returns at once and leaves the queue,
\* state.active_duels and state.user_to_duel (and all the rest) as they are;
\* called for a player who is in the queue already it appends nothing: the
\* player has no second entry, in the queue as it is and as the call leaves it.
C15_EnqueueRejectsAndNeverDoubles ==
    \A uid \in Players :
        LET e == maybe_enqueue_and_match(World, uid)
        IN  /\ (\/ db_active = 0
                \/ ~get_player_stats(db_active, uid)
                \/ get_auto_queue(db_active, uid) # 1
                \/ user_to_duel[uid] # 0) =>
                   /\ ~e.susp
                   /\ e.w = World
            /\ Entries(Queue, uid) <= 1
            /\ Entries(QueueOf(e.w), uid) <= 1
            /\ InSeq(uid, Queue) =>
                   /\ ~e.susp
                   /\ Entries(QueueOf(e.w), uid) <= Entries(Queue, uid)

\* while players are bound to a duel and one of the event's players has
\* paused, another waits in the queue with nothing in the way of a further
\* call for him
C15_Witness ==
    /\ handler = Idle
    /\ \E u \in Players : user_to_duel[u] # 0
    /\ \E u \in Players : InSeq(u, Queue) /\ Eligible(World, u)
    /\ \E u \in Players : get_player_stats(db_active, u) /\ get_auto_queue(db_active, u) = 0

\* C16: the store never holds more than one active event; whenever there is
\* an in-memory event it is that active event; and cmd_event_start leaves
\* the event it creates as the only active one, with a queue of its own: who
\* waits in the queue is enrolled in the active event, never a player that
\* an earlier event had queued.
C16_OneActiveEvent ==
    /\ Cardinality(db_is_active) <= 1
    /\ global_event # None => db_is_active = {global_event[1].event_id}
    /\ \A eid \in 1..ClockEvents :
           create_event(deactivate_events(db_is_active), eid) = {eid}
    /\ \A i \in 1..Len(Queue) : get_player_stats(db_active, Queue[i])

\* an event has been started while another, which a player had joined, was
\* active: the later event is the active one, the two jobs scheduled are
\* its own and nobody waits in its queue
C16_Witness ==
    /\ db_is_active = {2}
    /\ global_event # None
    /\ Queue = <<>>
    /\ \E u \in Players : <<1, u>> \in db_players
    /\ \A j \in EventJobs : j.a = 2
    /\ Cardinality(EventJobs) = 2

\* C17: join succeeds exactly when the lobby is open and the game is neither
\* running nor finished; the join of a player who has joined returns success
\* and changes nothing, his record least of all; a rejected join changes
\* nothing, so that nobody is added once the game has started.
C17_JoinOnlyInLobby ==
    \A user_id \in ClassUsers, name \in Names :
        LET j == join(game, user_id, name)
        IN  /\ j.ok <=> (game.is_open /\ ~game.is_running /\ ~game.is_finished)
            /\ (j.ok /\ user_id \in DOMAIN game.players) => j.g = game
            /\ (j.ok /\ user_id \notin DOMAIN game.players) =>
                   j.g = [game EXCEPT !.players = Put(@, user_id,
                             [name |-> name, score |-> 0, correct |-> 0, wrong |-> 0])]
            /\ ~j.ok => j.g = game
            /\ (game.is_running \/ game.is_finished) => j.g.players = game.players

\* a user who had not joined asked to join a game that was running: the join
\* was answered with "ok" false
C17_Witness ==
    /\ response = Some(Response("tma_server", "join", 200, FALSE))
    /\ game.is_running
    /\ DOMAIN game.players # {}
    /\ DOMAIN game.players # ClassUsers

\* C18: submit_answer fails and changes nothing when the game is not
\* running, when the player has not joined, when he has an answer for the
\* round, when no question is active (as in the pause of round_timer_loop
\* between end_round and next_round); otherwise it succeeds and records the
\* one answer of the player, the answers of the others as they were: an
\* answer that is recorded is not written again.
C18_AnswerRecordedOnce ==
    \A user_id \in ClassUsers, choice \in Options, latency_ms \in ClassLatencies :
        LET a == submit_answer(game, user_id, choice, latency_ms)
            rejected == \/ ~game.is_running
                        \/ user_id \notin DOMAIN game.players
                        \/ user_id \in DOMAIN game.answers
                        \/ game.current_question = None
        IN  /\ rejected => (~a.ok /\ a.g = game)
            /\ ~rejected =>
                   /\ a.ok
                   /\ a.g = [game EXCEPT !.answers = Put(@, user_id,
                                [choice |-> choice, time |-> latency_ms])]
                   /\ DOMAIN a.g.answers = DOMAIN game.answers \cup {user_id}
            /\ \A u \in DOMAIN game.answers : a.g.answers[u] = game.answers[u]

\* in the pause of round_timer_loop a player of the running game, who had
\* not answered the round, sent an answer: it was answered with "ok" false
C18_Witness ==
    /\ response = Some(Response("tma_server", "answer", 200, FALSE))
    /\ round_task = "pause"
    /\ game.is_running
    /\ game.current_question = None
    /\ DOMAIN game.players # DOMAIN game.answers

\* the times end_round has scored round r
Scored(r) ==
    Cardinality({i \in DOMAIN game.round_results : game.round_results[i].round = r})

\* C19: however round_timer_loop and the admin requests interleave, every
\* round whose question was set is scored by end_round exactly once before
\* the question of another round replaces it or the game finishes, and no
\* round is scored twice.
C19_EveryRoundScoredOnce ==
    /\ \A r \in game.asked :
           (r < game.current_round \/ game.is_finished) => Scored(r) = 1
    /\ \A r \in game.asked : Scored(r) <= 1

\* C20: an answer request whose init data is missing or is not what
\* Telegram has signed for its user is answered with status 401 and "ok"
\* false and leaves the room as it is, by the aiohttp server and by the
\* serverless function.
C20_UnauthenticatedAnswerRejected ==
    \A init_data \in InitDatas \ SignedInitDatas, body \in Bodies :
        /\ \A latency_ms \in ClassLatencies :
               LET h == handle_answer(game, init_data, body, latency_ms)
               IN  /\ h.r.status = 401
                   /\ ~h.r.ok
                   /\ h.g = game
        /\ LET n == netlify_handle_answer(game_state, init_data, body)
           IN  /\ n.r.status = 401
               /\ ~n.r.ok
               /\ n.g = game_state

\* the aiohttp server has answered an answer request with 401 while its
\* game was running with a question that a player had yet to answer, the
\* room of the function having a player too
C20_Witness ==
    /\ response = Some(Response("tma_server", "answer", 401, FALSE))
    /\ game.is_running
    /\ game.current_question # None
    /\ DOMAIN game.players # DOMAIN game.answers
    /\ DOMAIN game_state.players # {}

\* C21: a join request whose init data is missing or is not what Telegram
\* has signed for its user is rejected as unauthenticated: it is answered
\* with "ok" false, by the aiohttp server with status 401, no user is taken
\* from the request and the room is left as it is, no player added and none
\* changed, by the aiohttp server and by the serverless function.
C21_UnauthenticatedJoinRejected ==
    \A init_data \in InitDatas \ SignedInitDatas :
        /\ LET h == handle_join(game, init_data)
           IN  /\ h.r.status = 401
               /\ ~h.r.ok
               /\ h.g = game
        /\ \A body_user_id \in JoinBodies, body_name \in Names :
               LET n == netlify_handle_join(game_state, init_data, body_user_id, body_name)
               IN  /\ ~n.r.ok
                   /\ n.g.players = game_state.players

\* the room g, the correct option of its question (when it has one) at c
WithCorrectIdx(g, c) ==
    IF g.current_question = None THEN g
    ELSE [g EXCEPT !.current_question = Some([@[1] EXCEPT !.correct_idx = c])]

\* C22: whatever the room and whoever asks, the state that GET /api/state
\* returns has the question in it only while the game is running with a
\* question active, the question in it has no correct index, and the state
\* is the same for two rooms that differ in the correct index only: of the
\* aiohttp server and of the serverless function.
C22_StateHidesCorrectIndex ==
    \A init_data \in InitDatas :
        /\ LET out == handle_state(game, init_data)
           IN  /\ out.question # None =>
                      /\ game.is_running /\ game.current_question # None
                      /\ "correct_idx" \notin DOMAIN out.question[1]
               /\ \A c \in Options :
                      handle_state(WithCorrectIdx(game, c), init_data) = out
        /\ LET out == netlify_handle_state(game_state, init_data)
           IN  /\ out.question # None =>
                      /\ game_state.is_running /\ game_state.current_question # None
                      /\ "correct_idx" \notin DOMAIN out.question[1]
               /\ \A c \in Options :
                      netlify_handle_state(WithCorrectIdx(game_state, c), init_data) = out

\* the routes of the admin handlers of the aiohttp server
AdminRoutes == {"admin/open", "admin/start", "admin/reset", "admin/next"}

\* C23: an admin request (open, start, next, reset) whose X-Admin-Token is
\* not the configured admin token is answered 403 with ok false and leaves
\* the classroom as it was, by the aiohttp server and by the serverless
\* function.
C23_AdminNeedsToken ==
    \A token \in AdminTokens \ {ADMIN_TOKEN}, rounds \in 0..ClassRounds,
       avail \in ClassAvailChoices, correct_idx \in CorrectIdxChoices :
        /\ \A route \in AdminRoutes :
               LET h == handle_admin(game, token, route, rounds, avail, correct_idx)
               IN  h.r.status = 403 /\ ~h.r.ok /\ h.g = game
        /\ \A path \in AdminPaths :
               LET n == netlify_handle_admin(game_state, token, path, avail, correct_idx)
               IN  n.r.status = 403 /\ ~n.r.ok /\ n.g = game_state

\* a start without the token has been rejected while players waited in the
\* lobby, which the start would have closed
C23_Witness ==
    /\ response = Some(Response("tma_server", "admin/start", 403, FALSE))
    /\ game.is_open
    /\ DOMAIN game.players # {}

\* C24: a message of a duel that is not delivered or not edited (the intro,
\* the question, the edit of the reveal, the notice of the finish, the
\* recap) does not stop the rounds: the timer of the round is scheduled all
\* the same and the duel gets to Finished, so that a duel which no coroutine
\* holds and no timer is scheduled for is done, out of state.active_duels,
\* and its players are unbound.
C24_SendFailureKeepsDuelGoing ==
    \A d \in DOMAIN duels :
        (FramesOf(d) = {} /\ TimersOf(d) = {}) =>
            /\ duels[d].is_done
            /\ d \notin active_duels
            /\ user_to_duel[duels[d].p1_id] # d
            /\ user_to_duel[duels[d].p2_id] # d

\* C25: the timer of round r of duel d triggers a reveal only if, when it
\* fires, d is in state.active_duels and not done and is in round r; and
\* once both answers of a round are recorded (the reveal then starts in the
\* handler of the second) the timer of that round triggers no reveal, of
\* that round or of a later one: a timer that triggers a reveal has not been
\* scheduled for a round the duel had left, and it does not find both
\* answers recorded.
C25_TimerRevealsOnlyItsOpenRound ==
    [][\A j \in job_queue :
          (/\ j.fn = "end_round_job"
           /\ Run(Frame("job", j.a, 0, 0, 0, <<j.a, j.n>>),
                  reveal_and_advance([World EXCEPT !.jq = @ \ {j}], j.a, TRUE)))
          => /\ TimerCurrent(World, j.a, j.b)
             /\ j.n \notin duels[j.a].late
             /\ ~(Answered(duels[j.a], duels[j.a].p1_id)
                  /\ Answered(duels[j.a], duels[j.a].p2_id))]_vars

\* C26: when a duel has finished without a forced draw, a win and a loss are
\* recorded for it if and only if the final scores differ, the winner being
\* the player of the strictly higher score; with equal scores nothing is
\* recorded; and record_duel_win_loss is called at most once for a duel,
\* however it ends.
C26_WinLossIffScoresDiffer ==
    \A d \in DOMAIN duels :
        LET duel == duels[d]
        IN  /\ Cardinality(WinLossCalls(wl_log, d)) <= 1
            /\ duel.regular =>
                   WinLossCalls(wl_log, d) =
                       IF duel.p1_score > duel.p2_score
                       THEN {<<d, 1, duel.p1_id, duel.p2_id>>}
                       ELSE IF duel.p2_score > duel.p1_score
                       THEN {<<d, 1, duel.p2_id, duel.p1_id>>}
                       ELSE {}

\* a duel has finished after its last round with the second player ahead,
\* and the win is recorded for that player
C26_Witness ==
    \E d \in DOMAIN duels :
        /\ duels[d].regular
        /\ duels[d].round_idx = duels[d].rounds_total
        /\ duels[d].p2_score > duels[d].p1_score
        /\ WinLossCalls(wl_log, d) = {<<d, 1, duels[d].p2_id, duels[d].p1_id>>}

\* the steps of the coroutines and of the timers of duel d
ResumeOf(d) ==
    \E f \in FramesOf(d) :
        /\ f.pc \in {"flow_start", "reveal_edit", "finish_sleep"}
        /\ Run(f, ResumeStep(World, f))

SendDoneOf(d) ==
    \E f \in FramesOf(d) :
        /\ f.pc \in SendPcs
        /\ Run(f, DeliveredStep(World, f))

RoundStartOf(d) ==
    \E f \in FramesOf(d), avail \in AvailChoices, correct_idx \in CorrectIdxChoices :
        /\ f.pc \in {"flow_intro", "reveal_sleep"}
        /\ Run(f, run_next_round(World, f.d, avail, correct_idx))

TimerFiresOf(d) ==
    \E j \in TimersOf(d) :
        LET w == [World EXCEPT !.jq = @ \ {j}]
            f == Frame("job", j.a, 0, 0, 0, <<j.a, j.n>>)
        IN  IF TimerCurrent(w, j.a, j.b)
            THEN Run(f, reveal_and_advance(w, j.a, TRUE))
            ELSE Run(f, [w |-> w, pc |-> "end"])

\* the duels of two players who answer or do not, every message delivered,
\* under the scheduling of the event loop and of the job queue: a coroutine
\* that can go on does go on (a sleep ends, a send returns) and a timer
\* that is scheduled fires
InitFair ==
    Start([players |-> 1..FairPlayers, duels |-> FairDuels, rounds |-> FairRounds,
           events |-> MaxEvents, steps |-> -1, history |-> FALSE, timers |-> FALSE])

\* the players send /join until the duels are made, and nothing but their
\* answers after
JoinFirst == duel_seq < FairDuels /\ cmd_join

NextFair ==
    \/ Resume
    \/ SendDone
    \/ RoundStart
    \/ TimerFires
    \/ Callback
    \/ JoinFirst
    \/ cmd_event_start

\* a step of a coroutine or of a timer of duel d
DuelStep(d) == ResumeOf(d) \/ SendDoneOf(d) \/ RoundStartOf(d) \/ TimerFiresOf(d)

Fairness == \A d \in 1..FairDuels : WF_vars(DuelStep(d))

\* the same duels, of more rounds, the round of every timer kept
InitTimer ==
    Start([players |-> 1..FairPlayers, duels |-> FairDuels, rounds |-> MainRounds,
           events |-> MaxEvents, steps |-> -1, history |-> FALSE, timers |-> TRUE])

SpecTimer == InitTimer /\ [][NextFair]_vars

SpecFair == InitFair /\ [][NextFair]_vars /\ Fairness

\* duel d is out of state.active_duels and nobody is bound to it
Gone(d) == d \notin active_duels /\ \A u \in Players : user_to_duel[u] # d

RECURSIVE IsSubSeq(_, _)
IsSubSeq(a, b) ==
    IF Len(a) = 0 THEN TRUE
    ELSE IF Len(b) = 0 THEN FALSE
    ELSE IF Head(a) = Head(b) THEN IsSubSeq(Tail(a), Tail(b))
    ELSE IsSubSeq(a, Tail(b))

\* the players who have an entry in q
PlayersIn(q) == {q[i] : i \in 1..Len(q)}

\* C28: try_matchmake pairs the head of the queue with the earliest later
\* entry that is another player's, and the other entries keep their order;
\* called with a queue whose entries are all of one player, it makes no duel
\* and leaves the queue as it is, its length included.
C28_PairsHeadWithFirstOther ==
    pure # None =>
        LET q == pure[1].queue
            I == {i \in 2..Len(q) : q[i] # q[1]}
        IN  IF Cardinality(PlayersIn(q)) >= 2
            THEN LET i == CHOOSE i \in I : \A j \in I : i <= j
                 IN  /\ duel_seq >= 1
                     /\ duels[1].p1_id = q[1]
                     /\ duels[1].p2_id = q[i]
                     /\ user_to_duel[q[1]] = 1
                     /\ user_to_duel[q[i]] = 1
                     /\ IsSubSeq(Queue, RemoveAt(Tail(q), i - 1))
            ELSE /\ duel_seq = 0
                 /\ active_duels = {}
                 /\ Queue = q

\* try_matchmake has been called with the head's player twice before
\* another player's entry: it has paired the head with the third entry and
\* left the second
C28_Witness ==
    /\ pure # None
    /\ Len(pure[1].queue) = 3
    /\ pure[1].queue[1] = pure[1].queue[2]
    /\ pure[1].queue[1] # pure[1].queue[3]
    /\ duel_seq = 1
    /\ Queue = <<pure[1].queue[1]>>

\* C29: a round of a solo session is revealed at most once, whatever the
\* interleaving of the timer of the round and of the answers (an answer that
\* arrives while the reveal of the timer awaits its edit included): the
\* score, the ledger and the round index are written once for the round, so
\* that no call logged for a round of a session has an ordinal above 1.
C29_SoloRoundRevealedOnce ==
    \A s \in DOMAIN solos : \A e \in SoloCalls(rr_log, s) : e[4] = 1

\* C30: a solo session writes the result of a round it reveals to the
\* ledger if and only if it was linked to an event when it was started (an
\* event was active and the player enrolled in it): a linked session has one
\* call per reveal, a session without a link has none; and no solo session
\* records a win or a loss.
C30_SoloLedgerOnlyWhenLinked ==
    /\ \A s \in DOMAIN solos :
           /\ solos[s].event_id # 0 =>
                  <<solos[s].event_id, solos[s].user_id>> \in db_players
           /\ Cardinality(SoloCalls(rr_log, s)) =
                  IF solos[s].event_id # 0 THEN solos[s].reveals ELSE 0
    /\ wl_log = {}

\* a player has had a round revealed in a session started before enrolling
\* and another in a session started after: only the second is in the ledger
C30_Witness ==
    \E s1, s2 \in DOMAIN solos :
        /\ solos[s1].event_id = 0
        /\ solos[s1].reveals >= 1
        /\ solos[s2].event_id # 0
        /\ solos[s2].reveals >= 1
        /\ SoloCalls(rr_log, s1) = {}
        /\ SoloCalls(rr_log, s2) # {}

\* C31: end_round with a question active scores every joined player exactly
\* once: one of the player's counters correct and wrong goes up by 1 and the
\* other stays, the score goes up by 2 for a correct answer of at most
\* 5000 ms, by 1 for a slower correct answer and by 0 for a wrong answer or
\* none, and the question is cleared; with no question active end_round
\* changes nothing.
C31_EndRoundScoresEveryPlayerOnce ==
    LET g == end_round(game)
    IN  IF game.current_question = None THEN g = game
        ELSE /\ g.current_question = None
             /\ DOMAIN g.players = DOMAIN game.players
             /\ \A uid \in DOMAIN game.players :
                    LET before == game.players[uid]
                        after == g.players[uid]
                        answered == uid \in DOMAIN game.answers
                        right == /\ answered
                                 /\ game.answers[uid].choice
                                        = game.current_question[1].correct_idx
                    IN  /\ after.correct = before.correct + (IF right THEN 1 ELSE 0)
                        /\ after.wrong = before.wrong + (IF right THEN 0 ELSE 1)
                        /\ after.name = before.name
                        /\ after.score - before.score =
                               IF ~right THEN 0
                               ELSE IF game.answers[uid].time <= 5000 THEN 2
                               ELSE 1

\* a round has been scored in which one player was right but slow and the
\* other gave no answer or a wrong one
C31_Witness ==
    /\ Len(game.round_results) = 1
    /\ game.current_question = None
    /\ \E u, v \in DOMAIN game.players :
           /\ game.players[u].correct = 1
           /\ game.players[u].score = 1
           /\ game.players[v].wrong = 1
           /\ game.players[v].score = 0

\* C32: a firing of rotate_phase_job while an event is active moves its
\* task_idx to (task_idx + 1) modulo the number of categories and to nothing
\* else, so the index stays in the range of TASK_TYPES; current_task_type is
\* the category at that index, the first category when no event is active; a
\* duel gets the current category when it is paired, and a rotation changes
\* the category of no duel.
C32_RotationAdvancesByOne ==
    [][/\ (rotate_phase_job /\ global_event # None) =>
              /\ global_event' # None
              /\ global_event'[1] =
                     [global_event[1] EXCEPT
                        !.task_idx = (global_event[1].task_idx + 1) % Len(TASK_TYPES)]
              /\ duels' = duels
       /\ (rotate_phase_job /\ global_event = None) => global_event' = None
       /\ global_event' # None =>
              /\ global_event'[1].task_idx \in 0..(Len(TASK_TYPES) - 1)
              /\ current_task_type(global_event')
                     = TASK_TYPES[global_event'[1].task_idx + 1]
       /\ global_event' = None => current_task_type(global_event') = TASK_TYPES[1]
       /\ \A d \in DOMAIN duels' \ DOMAIN duels :
              /\ global_event # None
              /\ duels'[d].task_type = TASK_TYPES[global_event[1].task_idx + 1]]_vars

\* a duel that was paired in the first phase of the running event is still
\* going in the second phase, with the category of the first
C32_Witness ==
    /\ global_event # None
    /\ global_event[1].task_idx = 1
    /\ \E d \in active_duels :
           /\ duels[d].event_id = global_event[1].event_id
           /\ duels[d].task_type = TASK_TYPES[1]
           /\ ~duels[d].is_done

\* C33: in every reachable state state.user_to_duel and state.active_duels
\* agree: an entry p -> d names a duel d of active_duels of which p is a
\* participant, and both participants of a duel of active_duels that has not
\* begun to finish (is_done not set) are mapped to it, so that no finishing
\* duel has taken away a player's binding to another, newer duel.
C33_IndexAgreesWithActiveDuels ==
    /\ \A p \in Players :
           user_to_duel[p] # 0 =>
               /\ user_to_duel[p] \in active_duels
               /\ p \in Participants(user_to_duel[p])
    /\ \A d \in active_duels :
           ~duels[d].is_done => \A p \in Participants(d) : user_to_duel[p] = d

\* C34: in every reachable state the round index of every duel is between 0
\* and rounds_total, no step lowers it or raises it by more than 1, each
\* player's score in the duel is at most 2 * round_idx, and a duel that
\* finish_duel has ended without force_draw stands at round_idx =
\* rounds_total, one reveal for each of its rounds. (A duel that nothing
\* refers to any more is left out of the comparison of the step: its record
\* is released.)
C34_RoundIndexBounds ==
    [][\A d \in DOMAIN duels' :
           /\ 0 <= duels'[d].round_idx
           /\ duels'[d].round_idx <= duels'[d].rounds_total
           /\ (d \in DOMAIN duels /\ Referenced(d, active_duels', tasks' \cup {handler'})) =>
                  duels'[d].round_idx \in {duels[d].round_idx, duels[d].round_idx + 1}
           /\ duels'[d].p1_score <= 2 * duels'[d].round_idx
           /\ duels'[d].p2_score <= 2 * duels'[d].round_idx
           /\ duels'[d].regular => duels'[d].round_idx = duels'[d].rounds_total]_vars

\* the players of an event join, pause, leave and resume, and start solo
\* sessions in between, over their first steps
PairPlayers == 2
PairDuels == 1
PairSteps == 12

InitPairing ==
    Start([players |-> 1..PairPlayers, duels |-> PairDuels, rounds |-> QueueRounds,
           events |-> MaxEvents, steps |-> PairSteps, history |-> FALSE,
           timers |-> FALSE])

NextPairing ==
    \/ cmd_event_start
    \/ cmd_join
    \/ cmd_pause
    \/ cmd_leave
    \/ cmd_resume
    \/ cmd_solo
    \/ SendDone
    \/ Resume
    \/ SoloSendDone
    \/ SoloSendFails

SpecPairing == InitPairing /\ [][NextPairing]_vars

\* C35: no duel is created with a player whose auto-queue preference is 0 at
\* the moment of the pairing: each of the two players of a duel that a step
\* creates has get_auto_queue = 1 for the duel's event when the step is taken
\* (a player who has paused, left, or started a solo session while enrolled
\* is bound into no new duel before a join or a resume).
C35_NoDuelWithAutoQueueOff ==
    [][\A d \in DOMAIN duels' \ DOMAIN duels :
           /\ get_auto_queue(duels'[d].event_id, duels'[d].p1_id) = 1
           /\ get_auto_queue(duels'[d].event_id, duels'[d].p2_id) = 1]_vars

\* the coroutines that are inside maybe_enqueue_and_match, between its append
\* and its try_matchmake
Enqueueing == {f \in Frames : f.pc \in {"enq1_send", "enq2_send"}}

\* C36: whenever no maybe_enqueue_and_match is in progress, at most one
\* player waits in the queue of the event, and no player is in it twice: two
\* players are never left waiting unpaired.
C36_AtMostOneWaiting ==
    Enqueueing = {} =>
        /\ Len(Queue) <= 1
        /\ \A i, j \in 1..Len(Queue) : i # j => Queue[i] # Queue[j]

\* C37: the finish of an earlier solo session takes no later session of the
\* player out of the session table: when cmd_solo has replaced S1 by S2 and
\* S2 has neither finished nor been stopped, solo_sessions still holds S2 for
\* the player, whatever the coroutines of S1 that were in flight at the
\* replacement have done since, so that S2's answers and timer are accepted.
C37_FinishKeepsLaterSession ==
    \A s1, s2 \in DOMAIN solos :
        (/\ solos[s1].replaced # None
         /\ solos[s1].replaced[1].by = s2
         /\ ~solos[s2].ended) =>
            solo_sessions[solos[s2].user_id] = s2

\* the phase of a room: which of its flags is set
Phase(g) ==
    IF g.is_finished THEN "finished"
    ELSE IF g.is_running THEN "running"
    ELSE IF g.is_open THEN "open"
    ELSE "reset"

\* the flags of a room g are in order, and so is their move to h
FlagsInOrder(g, h) ==
    /\ Cardinality({f \in {"is_open", "is_running", "is_finished"} : h[f]}) <= 1
    /\ h.is_running => DOMAIN h.players # {}
    /\ Phase(h) # Phase(g) =>
           CASE Phase(h) = "running" -> Phase(g) = "open"
             [] Phase(h) = "finished" -> Phase(g) = "running"
             [] Phase(h) = "open" -> h = open_lobby(h.total_rounds)
             [] Phase(h) = "reset" -> h = reset

\* the room as the requests find it, and as it is inside the handlers that
\* call two methods: after the start_game of handle_admin_start, after the
\* end_round of handle_admin_next
RoomStates == {game, start_game(game).g, end_round(game)}

\* C38: in every reachable state of the classroom room at most one of
\* is_open, is_running and is_finished is set and the game is not running
\* with no player joined; and every method of ClassroomGame moves the flags
\* in their order: to running only from open, to finished only from running,
\* and to the reset or the open phase from another phase only as reset and
\* open_lobby leave the room.
C38_RoomFlagsExclusive ==
    \A g \in RoomStates :
        /\ FlagsInOrder(g, g)
        /\ FlagsInOrder(g, reset)
        /\ \A rounds \in 0..ClassRounds : FlagsInOrder(g, open_lobby(rounds))
        /\ \A uid \in ClassUsers : FlagsInOrder(g, join(g, uid, "Ann").g)
        /\ FlagsInOrder(g, start_game(g).g)
        /\ \A avail \in ClassAvailChoices, correct_idx \in CorrectIdxChoices :
               FlagsInOrder(g, next_round(g, avail, correct_idx).g)
        /\ \A uid \in ClassUsers, choice \in Options, latency_ms \in ClassLatencies :
               FlagsInOrder(g, submit_answer(g, uid, choice, latency_ms).g)
        /\ FlagsInOrder(g, end_round(g))

\* a game has gone from the lobby through a scored round to finished
C38_Witness ==
    /\ game.is_finished
    /\ ~game.is_open
    /\ ~game.is_running
    /\ DOMAIN game.players # {}
    /\ Len(game.round_results) > 0

\* C39: in every reachable state of the classroom room every joined player
\* has correct + wrong = the number of rounds scored so far (the length of
\* round_results) and correct <= score <= 2 * correct, and no more than
\* total_rounds rounds have been scored.
C39_CountersMatchRoundsScored ==
    /\ \A uid \in DOMAIN game.players :
           LET p == game.players[uid]
           IN  /\ p.correct + p.wrong = Len(game.round_results)
               /\ p.correct <= p.score
               /\ p.score <= 2 * p.correct
    /\ Len(game.round_results) <= game.total_rounds

\* all the rounds of a game of two have been scored: a player was right in
\* one and not in the other, another was right in neither
C39_Witness ==
    /\ game.total_rounds = ClassRounds
    /\ Len(game.round_results) = ClassRounds
    /\ \E u, v \in DOMAIN game.players :
           /\ game.players[u].correct = 1
           /\ game.players[u].wrong = 1
           /\ game.players[v].wrong = ClassRounds

\* the scheduled jobs of the event clock that run fn
ClockJobs(fn) == {j \in job_queue : j.fn = fn}

\* C40: a rotation or expiry timer scheduled for an event changes the state
\* of no other event. Whichever rotate_phase_job fires while an event is in
\* memory, it was scheduled for that event, so the task_idx it advances is
\* its own event's; whichever end_event_job fires, it was scheduled for the
\* event that is in memory and active in the store, so the queue it clears
\* and the row it deactivates are its own event's.
C40_ClockJobsActOnTheirEvent ==
    [][/\ (rotate_phase_job /\ global_event # None) =>
              \A j \in ClockJobs("rotate_phase_job") :
                  j.a = global_event[1].event_id
       /\ (end_event_job /\ (global_event # None \/ db_is_active # {})) =>
              \A j \in ClockJobs("end_event_job") :
                  /\ global_event # None
                  /\ j.a = global_event[1].event_id
                  /\ db_is_active = {j.a}]_vars

\* an event that this process had started has been stopped or replaced, and
\* the phase of a later event has been rotated by its own timer
C40_Witness ==
    /\ db_events = ClockEvents
    /\ global_event # None
    /\ global_event[1].event_id = db_events
    /\ global_event[1].task_idx = 1
    /\ job_queue = {Job("rotate_phase_job", db_events, 0, 0),
                    Job("end_event_job", db_events, 0, 0)}

==========================================================================
